---- MODULE Spec2Model ----
(***************************************************************************)
(* BackgroundSessionStore: the per-session accumulation of Protocol A      *)
(* (handleEvent) and Protocol B (handleACPEvent) events into UIMessage     *)
(* transcripts, with the store's lifecycle operations.                     *)
(*                                                                         *)
(* Representation.  A UIMessage is a record with every optional field      *)
(* present: an absent string field is "undefined", an absent flag FALSE,   *)
(* an absent text <<>> (the code only ever tests texts for truthiness, so  *)
(* undefined and "" are one value), and subagentSteps === undefined is     *)
(* hasSubagentSteps = FALSE.  Texts are sequences of characters.  Message  *)
(* ids are <<prefix, key>> for the template `${prefix}-${key}`.            *)
(* Timestamps (Date.now()) are never read by the store and are left out,   *)
(* as are toolInput and the derived subagentId/DurationMs/Tokens fields,   *)
(* which are written once from the event and never read.  Costs are        *)
(* integers.  The values returned by the helpers of ./protocol and         *)
(* ./acp-adapter (extractTextContent, normalizeToolResult, getParentId,    *)
(* deriveToolName) are inputs of the actions.                              *)
(***************************************************************************)
EXTENDS Integers, Sequences, FiniteSets, TLC

VARIABLES
    sessions,    \* this.sessions: Map<string, InternalState>
    idCounter,   \* this.idCounter
    calls,       \* the callbacks the last operation invoked, in order
    last,        \* the last operation and its arguments
    held,        \* the BackgroundSessionState the foreground owner holds (from consume);
                 \* held.record is the store's record as consume removed it (history only)
    snap,        \* the value returned by the last get, until the next store call
    ops,         \* the number of steps taken so far
    limit        \* the number of steps the behaviour takes at most

vars == <<sessions, idCounter, calls, last, held, snap, ops, limit>>

\* ---------------------------------------------------------------- bounds
\* the number of steps a behaviour of each specification takes
MaxOpsA == 4
MaxOpsStore == 6
MaxOps == 3
MaxOpsB == 5
MaxOpsSub == 5
MaxOpsTwo == 5
MaxOpsMove == 6
MaxOpsMsg == 5
MaxOpsResult == 4
MaxOpsDedup == 6
MaxOpsTurn == 5
MaxOpsPerm == 5

\* ---------------------------------------------------------------- inputs
AllSids == {"s1", "s2"}
ToolIds == {"t1", "t2"}
Uuids == {"u1", "u2"}
ToolNames == {"Task", "Bash"}
Deltas == {<<"a">>, <<" ">>}
ThinkingDeltas == {<<"r">>}
FinalTexts == {<<>>, <<"b">>}
FinalThinkings == {<<>>, <<"q">>}
Results == {"r1", "r2"}
Infos == {"info1", "info2"}
Permissions == {"p1", "p2"}
RawPermissions == {"null", "raw1"}
ToolUses == {<<>>} \cup {<<[id |-> t, name |-> n]>> : t \in ToolIds, n \in ToolNames}

NoId == <<>>
NoHeld == [none |-> TRUE]
NoSnap == [none |-> TRUE]

\* ---------------------------------------------------------------- helpers
\* String.prototype.trim() on a text of the model's alphabet
RECURSIVE trimStart(_)
trimStart(s) == IF s # <<>> /\ Head(s) = " " THEN trimStart(Tail(s)) ELSE s

RECURSIVE trimEnd(_)
trimEnd(s) == IF s # <<>> /\ s[Len(s)] = " " THEN trimEnd(SubSeq(s, 1, Len(s) - 1)) ELSE s

trim(s) == trimEnd(trimStart(s))

\* Array.prototype.filter
RECURSIVE filterOutId(_, _)
filterOutId(msgs, id) ==
    IF msgs = <<>> THEN <<>>
    ELSE IF Head(msgs).id # id THEN <<Head(msgs)>> \o filterOutId(Tail(msgs), id)
    ELSE filterOutId(Tail(msgs), id)

\* messages.find(m => m.id === id): the index of the first match, 0 when none
findById(msgs, id) ==
    IF \E i \in 1..Len(msgs) : msgs[i].id = id
    THEN CHOOSE i \in 1..Len(msgs) : msgs[i].id = id /\ \A j \in 1..(i - 1) : msgs[j].id # id
    ELSE 0

\* messages.findLast(m => m.role === "assistant" && m.isStreaming): index, 0 when none
findLastStreaming(msgs) ==
    IF \E i \in 1..Len(msgs) : msgs[i].role = "assistant" /\ msgs[i].isStreaming
    THEN CHOOSE i \in 1..Len(msgs) :
            /\ msgs[i].role = "assistant" /\ msgs[i].isStreaming
            /\ \A j \in (i + 1)..Len(msgs) : ~(msgs[j].role = "assistant" /\ msgs[j].isStreaming)
    ELSE 0

BlankMsg(id, role) ==
    [id |-> id, role |-> role, content |-> <<>>, thinking |-> <<>>,
     thinkingComplete |-> FALSE, isStreaming |-> FALSE, toolName |-> "undefined",
     toolResult |-> "undefined", toolError |-> FALSE, hasSubagentSteps |-> FALSE,
     subagentSteps |-> <<>>, subagentStatus |-> "undefined", isError |-> FALSE]

nextId(prefix) == <<prefix, ToString(idCounter)>>

NewState ==
    [messages |-> <<>>, isProcessing |-> FALSE, isConnected |-> FALSE,
     sessionInfo |-> "null", totalCost |-> 0, pendingPermission |-> "null",
     rawAcpPermission |-> "null", parentToolMap |-> <<>>,
     currentStreamingMsgId |-> NoId]

has(sid) == sid \in DOMAIN sessions

getOrCreate(sid) == IF has(sid) THEN sessions[sid] ELSE NewState

\* Put with one record object behind every session id
PutShared(sid, st) == [k \in DOMAIN sessions \cup {sid} |-> st]

\* this.sessions with sid bound to st (Map.set, or the in-place mutation of the record)
Put(sid, st) == [k \in DOMAIN sessions \cup {sid} |-> IF k = sid THEN st ELSE sessions[k]]

Remove(sid) == [k \in DOMAIN sessions \ {sid} |-> sessions[k]]

MapSet(map, key, val) == [k \in DOMAIN map \cup {key} |-> IF k = key THEN val ELSE map[k]]

\* the record of a call: its name, its session, its correlation id or other key, the
\* text it carried (an assistant event's textContent) and the cost it carried (a result's
\* total_cost_usd ?? 0, a usage_update's cost amount)
Op(op, sid, key) == [op |-> op, sid |-> sid, key |-> key, text |-> <<>>, amount |-> 0]

\* what every store call does to the values its caller holds: the snapshot of the last
\* get is given up at the next store call
Call == ops' = ops + 1 /\ limit' = limit

Frame == snap' = NoSnap /\ Call /\ UNCHANGED held

\* ---------------------------------------------------------------- Protocol A
\* case "system", subtype status / compact_boundary: only getOrCreate
SystemStatus(sid) ==
    /\ ops < limit
    /\ sessions' = Put(sid, getOrCreate(sid))
    /\ calls' = <<>>
    /\ last' = Op("system-status", sid, "")
    /\ UNCHANGED idCounter
    /\ Frame

\* case "system" (init)
SystemInit(sid, info) ==
    /\ ops < limit
    /\ sessions' = Put(sid, [getOrCreate(sid) EXCEPT !.sessionInfo = info,
                                                     !.isConnected = TRUE,
                                                     !.isProcessing = TRUE])
    /\ calls' = <<[cb |-> "onProcessingChange", sid |-> sid, arg |-> "true"]>>
    /\ last' = Op("system", sid, info)
    /\ UNCHANGED idCounter
    /\ Frame

\* handleStreamEvent, case "message_start"
MessageStart(sid) ==
    /\ ops < limit
    /\ LET st == getOrCreate(sid)
           id == nextId("stream-bg")
       IN sessions' = Put(sid, [st EXCEPT
              !.currentStreamingMsgId = id,
              !.messages = Append(@, [BlankMsg(id, "assistant") EXCEPT !.isStreaming = TRUE])])
    /\ idCounter' = idCounter + 1
    /\ calls' = <<>>
    /\ last' = Op("message_start", sid, "")
    /\ Frame

\* content_block_delta without lines 268-270 (a text delta leaves thinkingComplete alone)
contentBlockDeltaKeepsThinkingOpen(st, kind, text) ==
    LET i == findById(st.messages, st.currentStreamingMsgId)
    IN IF st.currentStreamingMsgId = NoId \/ i = 0 THEN st
       ELSE IF kind = "text_delta"
       THEN [st EXCEPT !.messages[i].content = @ \o text]
       ELSE IF kind = "thinking_delta"
       THEN [st EXCEPT !.messages[i].thinking = @ \o text]
       ELSE st

\* handleStreamEvent, case "content_block_delta"; kind is delta.type
contentBlockDelta(st, kind, text) ==
    LET i == findById(st.messages, st.currentStreamingMsgId)
    IN IF st.currentStreamingMsgId = NoId \/ i = 0 THEN st
       ELSE IF kind = "text_delta"
       THEN [st EXCEPT !.messages[i].thinkingComplete =
                           IF st.messages[i].thinking # <<>> /\ ~st.messages[i].thinkingComplete
                           THEN TRUE ELSE @,
                       !.messages[i].content = @ \o text]
       ELSE IF kind = "thinking_delta"
       THEN [st EXCEPT !.messages[i].thinking = @ \o text]
       ELSE st

ContentBlockDelta(sid, kind, text) ==
    /\ ops < limit
    /\ sessions' = Put(sid, contentBlockDelta(getOrCreate(sid), kind, text))
    /\ calls' = <<>>
    /\ last' = Op(kind, sid, "")
    /\ UNCHANGED idCounter
    /\ Frame

\* handleStreamEvent, case "message_delta"
messageDelta(st) ==
    LET i == findById(st.messages, st.currentStreamingMsgId)
    IN IF st.currentStreamingMsgId = NoId THEN st
       ELSE IF i = 0 THEN [st EXCEPT !.currentStreamingMsgId = NoId]
       ELSE IF trim(st.messages[i].content) = <<>> /\ st.messages[i].thinking = <<>>
       THEN [st EXCEPT !.messages = filterOutId(st.messages, st.messages[i].id),
                       !.currentStreamingMsgId = NoId]
       ELSE [st EXCEPT !.messages[i].isStreaming = FALSE,
                       !.currentStreamingMsgId = NoId]

MessageDelta(sid) ==
    /\ ops < limit
    /\ sessions' = Put(sid, messageDelta(getOrCreate(sid)))
    /\ calls' = <<>>
    /\ last' = Op("message_delta", sid, "")
    /\ UNCHANGED idCounter
    /\ Frame

\* handleStreamEvent, case "message_stop"
messageStop(st) == [st EXCEPT !.currentStreamingMsgId = NoId]

MessageStop(sid) ==
    /\ ops < limit
    /\ sessions' = Put(sid, messageStop(getOrCreate(sid)))
    /\ calls' = <<>>
    /\ last' = Op("message_stop", sid, "")
    /\ UNCHANGED idCounter
    /\ Frame

\* case "assistant": the message the finalized event reconciles with (index, 0 when none)
assistantTarget(st) ==
    IF st.currentStreamingMsgId # NoId
    THEN findById(st.messages, st.currentStreamingMsgId)
    ELSE findLastStreaming(st.messages)

\* reconcileAssistant with the operands of line 142 swapped
\* (target.content = target.content || textContent)
reconcileAssistantKeepDeltas(st, uuid, textContent, thinkingContent) ==
    LET i == assistantTarget(st)
    IN IF i # 0
       THEN LET content == IF st.messages[i].content # <<>> THEN st.messages[i].content
                           ELSE textContent
                thinking == IF thinkingContent # <<>> THEN thinkingContent ELSE st.messages[i].thinking
                upd == [st EXCEPT !.messages[i].content = content,
                                  !.messages[i].thinking = thinking,
                                  !.messages[i].thinkingComplete =
                                      IF thinkingContent # <<>> THEN TRUE ELSE @]
            IN IF trim(content) = <<>> /\ thinking = <<>>
               THEN [upd EXCEPT !.messages = filterOutId(upd.messages, st.messages[i].id)]
               ELSE upd
       ELSE IF textContent # <<>> \/ thinkingContent # <<>>
       THEN [st EXCEPT !.messages = Append(@,
                [BlankMsg(<<"assistant", uuid>>, "assistant") EXCEPT
                    !.content = textContent,
                    !.thinking = thinkingContent,
                    !.thinkingComplete = (thinkingContent # <<>>)])]
       ELSE st

\* case "assistant", lines 141-160: overwrite the target, or append a new message
reconcileAssistant(st, uuid, textContent, thinkingContent) ==
    LET i == assistantTarget(st)
    IN IF i # 0
       THEN LET content == IF textContent # <<>> THEN textContent ELSE st.messages[i].content
                thinking == IF thinkingContent # <<>> THEN thinkingContent ELSE st.messages[i].thinking
                upd == [st EXCEPT !.messages[i].content = content,
                                  !.messages[i].thinking = thinking,
                                  !.messages[i].thinkingComplete =
                                      IF thinkingContent # <<>> THEN TRUE ELSE @]
            IN IF trim(content) = <<>> /\ thinking = <<>>
               THEN [upd EXCEPT !.messages = filterOutId(upd.messages, st.messages[i].id)]
               ELSE upd
       ELSE IF textContent # <<>> \/ thinkingContent # <<>>
       THEN [st EXCEPT !.messages = Append(@,
                [BlankMsg(<<"assistant", uuid>>, "assistant") EXCEPT
                    !.content = textContent,
                    !.thinking = thinkingContent,
                    !.thinkingComplete = (thinkingContent # <<>>)])]
       ELSE st

\* case "assistant", lines 162-186: one tool_call message per tool_use block not yet there
RECURSIVE addToolUses(_, _)
addToolUses(st, blocks) ==
    IF blocks = <<>> THEN st
    ELSE LET block == Head(blocks)
             isTask == block.name = "Task"
             msgId == <<"tool", block.id>>
             pushed ==
                 [st EXCEPT
                    !.messages = Append(@,
                        [BlankMsg(msgId, "tool_call") EXCEPT
                            !.toolName = block.name,
                            !.hasSubagentSteps = isTask,
                            !.subagentStatus = IF isTask THEN "running" ELSE "undefined"]),
                    !.parentToolMap = IF isTask THEN MapSet(@, block.id, msgId) ELSE @]
         IN addToolUses(IF findById(st.messages, msgId) = 0 THEN pushed ELSE st, Tail(blocks))

\* assistantCase writing every tool_use block anew: a tool_call message the event names
\* again loses its result and its steps
assistantCaseResetsRepeated(st, uuid, textContent, thinkingContent, blocks) ==
    LET done == addToolUses(reconcileAssistant(st, uuid, textContent, thinkingContent), blocks)
    IN [done EXCEPT !.messages =
           [i \in 1..Len(done.messages) |->
               IF \E k \in 1..Len(blocks) : done.messages[i].id = <<"tool", blocks[k].id>>
               THEN [done.messages[i] EXCEPT !.toolResult = "undefined",
                                             !.subagentSteps = <<>>]
               ELSE done.messages[i]]]

assistantCase(st, uuid, textContent, thinkingContent, blocks) ==
    addToolUses(reconcileAssistant(st, uuid, textContent, thinkingContent), blocks)

AssistantEvent(sid, uuid, textContent, thinkingContent, blocks) ==
    LET st == assistantCase(getOrCreate(sid), uuid, textContent, thinkingContent, blocks)
    IN /\ ops < limit
       /\ sessions' = Put(sid, st)
       /\ calls' = <<>>
       /\ last' = [Op("assistant", sid, uuid) EXCEPT !.text = textContent]
       /\ UNCHANGED idCounter
       /\ Frame

\* case "user": a tool_result attaches resultMeta = normalizeToolResult(...) to its tool_call
userCase(st, toolUseId, resultMeta) ==
    [st EXCEPT !.messages =
        [i \in 1..Len(st.messages) |->
            LET m == st.messages[i]
            IN IF m.id # <<"tool", toolUseId>> THEN m
               ELSE IF m.toolName = "Task" /\ resultMeta # "undefined"
               THEN [m EXCEPT !.toolResult = resultMeta, !.subagentStatus = "completed"]
               ELSE [m EXCEPT !.toolResult = resultMeta]]]

\* isToolResult: Array.isArray(uc) && uc[0]?.type === "tool_result"
UserEvent(sid, isToolResult, toolUseId, resultMeta) ==
    /\ ops < limit
    /\ sessions' = Put(sid, IF isToolResult
                            THEN userCase(getOrCreate(sid), toolUseId, resultMeta)
                            ELSE getOrCreate(sid))
    /\ calls' = <<>>
    /\ last' = Op(IF isToolResult THEN "tool_result" ELSE "user", sid, toolUseId)
    /\ UNCHANGED idCounter
    /\ Frame

\* formatResultError preferring the detail for every subtype
formatResultErrorDetailFirst(subtype, detail) ==
    IF detail # "" THEN detail
    ELSE CASE subtype = "error_max_turns" ->
                  "Session reached the maximum number of turns. Start a new session to continue."
           [] subtype = "error_max_budget_usd" -> "Session exceeded the cost budget limit."
           [] subtype = "error_max_structured_output_retries" ->
                  "Structured output failed after maximum retries."
           [] subtype = "error_during_execution" -> "An error occurred during execution."
           [] OTHER -> "An unexpected error occurred."

\* formatResultError
formatResultError(subtype, detail) ==
    CASE subtype = "error_max_turns" ->
             "Session reached the maximum number of turns. Start a new session to continue."
      [] subtype = "error_max_budget_usd" -> "Session exceeded the cost budget limit."
      [] subtype = "error_max_structured_output_retries" ->
             "Structured output failed after maximum retries."
      [] subtype = "error_during_execution" ->
             IF detail # "" THEN detail ELSE "An error occurred during execution."
      [] OTHER -> IF detail # "" THEN detail ELSE "An unexpected error occurred."

\* subtype?.startsWith("error"), on the subtypes the model delivers
startsWithError(subtype) ==
    subtype \in {"error_max_turns", "error_max_budget_usd",
                 "error_max_structured_output_retries", "error_during_execution",
                 "error_unknown"}

\* resultCase with line 222 as state.totalCost = resultEvt.total_cost_usd ?? 0
resultCaseReplacesCost(st, cost, isError, subtype, detail) ==
    LET done == [st EXCEPT !.isProcessing = FALSE, !.totalCost = cost]
    IN IF isError \/ startsWithError(subtype)
       THEN [done EXCEPT !.messages = Append(@,
                [BlankMsg(nextId("sys-err"), "system") EXCEPT
                    !.content = <<formatResultError(subtype, detail)>>,
                    !.isError = TRUE])]
       ELSE done

\* case "result"; cost is total_cost_usd ?? 0, detail is errors?.join("; ") || result || ""
resultCase(st, cost, isError, subtype, detail) ==
    LET done == [st EXCEPT !.isProcessing = FALSE, !.totalCost = @ + cost]
    IN IF isError \/ startsWithError(subtype)
       THEN [done EXCEPT !.messages = Append(@,
                [BlankMsg(nextId("sys-err"), "system") EXCEPT
                    !.content = <<formatResultError(subtype, detail)>>,
                    !.isError = TRUE])]
       ELSE done

ResultEvent(sid, cost, isError, subtype, detail) ==
    /\ ops < limit
    /\ sessions' = Put(sid, resultCase(getOrCreate(sid), cost, isError, subtype, detail))
    /\ idCounter' = IF isError \/ startsWithError(subtype) THEN idCounter + 1 ELSE idCounter
    /\ calls' = <<[cb |-> "onProcessingChange", sid |-> sid, arg |-> "false"]>>
    /\ last' = [Op("result", sid, subtype) EXCEPT !.amount = cost]
    /\ Frame

\* ---------------------------------------------------------------- subagent events
\* handleSubagentEvent, event.type === "assistant": one step per tool_use block
RECURSIVE addSubagentSteps(_, _, _)
addSubagentSteps(msgs, taskMsgId, blocks) ==
    IF blocks = <<>> THEN msgs
    ELSE LET step == [toolName |-> Head(blocks).name, toolUseId |-> Head(blocks).id,
                      toolResult |-> "undefined"]
         IN addSubagentSteps(
                [i \in 1..Len(msgs) |->
                    IF msgs[i].id # taskMsgId THEN msgs[i]
                    ELSE [msgs[i] EXCEPT !.subagentSteps = Append(@, step),
                                         !.hasSubagentSteps = TRUE]],
                taskMsgId, Tail(blocks))

\* setStepResult writing the result to the host message instead of its step
setStepResultOnHost(msgs, taskMsgId, toolUseId, resultMeta) ==
    [i \in 1..Len(msgs) |->
        IF msgs[i].id # taskMsgId THEN msgs[i]
        ELSE [msgs[i] EXCEPT !.toolResult = resultMeta, !.hasSubagentSteps = TRUE]]

\* handleSubagentEvent, event.type === "user" with a tool_result
setStepResult(msgs, taskMsgId, toolUseId, resultMeta) ==
    [i \in 1..Len(msgs) |->
        IF msgs[i].id # taskMsgId THEN msgs[i]
        ELSE [msgs[i] EXCEPT
                !.subagentSteps =
                    [k \in 1..Len(msgs[i].subagentSteps) |->
                        IF msgs[i].subagentSteps[k].toolUseId = toolUseId
                        THEN [msgs[i].subagentSteps[k] EXCEPT !.toolResult = resultMeta]
                        ELSE msgs[i].subagentSteps[k]],
                !.hasSubagentSteps = TRUE]]

\* handleSubagentEvent without the test of line 310 (if (!taskMsgId) return), taking
\* `tool-${parentId}` for the host of a parent id that is not registered
handleSubagentEventUnchecked(st, type, parentId, blocks, toolUseId, resultMeta) ==
    LET taskMsgId == IF parentId \in DOMAIN st.parentToolMap THEN st.parentToolMap[parentId]
                     ELSE <<"tool", parentId>>
    IN IF type = "assistant"
       THEN [st EXCEPT !.messages = addSubagentSteps(@, taskMsgId, blocks)]
       ELSE IF type = "user"
       THEN [st EXCEPT !.messages = setStepResult(@, taskMsgId, toolUseId, resultMeta)]
       ELSE st

\* handleSubagentEvent; type is event.type ("assistant", "user" with a tool_result, or
\* "other" for every event the function ignores)
handleSubagentEvent(st, type, parentId, blocks, toolUseId, resultMeta) ==
    IF parentId \notin DOMAIN st.parentToolMap THEN st
    ELSE IF type = "assistant"
    THEN [st EXCEPT !.messages = addSubagentSteps(@, st.parentToolMap[parentId], blocks)]
    ELSE IF type = "user"
    THEN [st EXCEPT !.messages =
             setStepResult(@, st.parentToolMap[parentId], toolUseId, resultMeta)]
    ELSE st

\* handleEvent with getParentId(event) set
SubagentEvent(sid, type, parentId, blocks, toolUseId, resultMeta) ==
    /\ ops < limit
    /\ sessions' = Put(sid, handleSubagentEvent(getOrCreate(sid), type, parentId, blocks,
                                                toolUseId, resultMeta))
    /\ calls' = <<>>
    /\ last' = Op("subagent-" \o type, sid, parentId)
    /\ UNCHANGED idCounter
    /\ Frame

\* ---------------------------------------------------------------- Protocol B
\* closePendingACPTools without the assignment of line 465 (nothing is closed)
closePendingACPToolsSkipped(st) == st

\* closePendingACPTools
closePendingACPTools(st) ==
    [st EXCEPT !.messages =
        [i \in 1..Len(st.messages) |->
            IF st.messages[i].role = "tool_call" /\ st.messages[i].toolResult = "undefined"
               /\ ~st.messages[i].toolError
            THEN [st.messages[i] EXCEPT !.toolResult = "completed"]
            ELSE st.messages[i]]]

\* ensureACPStreamingMsg with unshift in place of push (line 439)
ensureACPStreamingMsgInFront(st) ==
    IF st.currentStreamingMsgId # NoId THEN st
    ELSE [st EXCEPT
            !.currentStreamingMsgId = nextId("stream-bg"),
            !.messages = <<[BlankMsg(nextId("stream-bg"), "assistant") EXCEPT
                               !.isStreaming = TRUE]>> \o @]

\* ensureACPStreamingMsg
ensureACPStreamingMsg(st) ==
    IF st.currentStreamingMsgId # NoId THEN st
    ELSE [st EXCEPT
            !.currentStreamingMsgId = nextId("stream-bg"),
            !.messages = Append(@, [BlankMsg(nextId("stream-bg"), "assistant") EXCEPT
                                        !.isStreaming = TRUE])]

\* finalizeACPStreamingMsg without line 458 (the pointer stays on the finalized message)
finalizeACPStreamingMsgKeepsPointer(st) ==
    LET i == findById(st.messages, st.currentStreamingMsgId)
    IN IF st.currentStreamingMsgId = NoId THEN st
       ELSE IF i = 0 THEN st
       ELSE [st EXCEPT !.messages[i].thinkingComplete =
                           IF st.messages[i].thinking # <<>> /\ ~st.messages[i].thinkingComplete
                           THEN TRUE ELSE @,
                       !.messages[i].isStreaming = FALSE]

\* finalizeACPStreamingMsg
finalizeACPStreamingMsg(st) ==
    LET i == findById(st.messages, st.currentStreamingMsgId)
    IN IF st.currentStreamingMsgId = NoId THEN st
       ELSE IF i = 0 THEN [st EXCEPT !.currentStreamingMsgId = NoId]
       ELSE [st EXCEPT !.messages[i].thinkingComplete =
                           IF st.messages[i].thinking # <<>> /\ ~st.messages[i].thinkingComplete
                           THEN TRUE ELSE @,
                       !.messages[i].isStreaming = FALSE,
                       !.currentStreamingMsgId = NoId]

\* case "agent_message_chunk"; text is <<>> when content is not a non-empty text
agentMessageChunk(st, text) ==
    LET closed == closePendingACPTools(st)
        ens == ensureACPStreamingMsg(closed)
        i == findById(ens.messages, ens.currentStreamingMsgId)
    IN IF text = <<>> THEN closed
       ELSE IF i = 0 THEN ens
       ELSE [ens EXCEPT !.messages[i].thinkingComplete =
                            IF ens.messages[i].thinking # <<>> /\ ~ens.messages[i].thinkingComplete
                            THEN TRUE ELSE @,
                        !.messages[i].content = @ \o text]

\* case "agent_thought_chunk"
agentThoughtChunk(st, text) ==
    LET closed == closePendingACPTools(st)
        ens == ensureACPStreamingMsg(closed)
        i == findById(ens.messages, ens.currentStreamingMsgId)
    IN IF text = <<>> THEN closed
       ELSE IF i = 0 THEN ens
       ELSE [ens EXCEPT !.messages[i].thinking = @ \o text]

\* toolCall without the test of line 388 (!state.messages.some(m => m.id === msgId))
toolCallAppendsAlways(st, toolCallId, status, toolName, result) ==
    LET fin == finalizeACPStreamingMsg(closePendingACPTools(st))
        msgId == <<"tool", toolCallId>>
        isAlreadyDone == status = "completed" \/ status = "failed"
    IN [fin EXCEPT !.messages = Append(@,
           [BlankMsg(msgId, "tool_call") EXCEPT
               !.toolName = toolName,
               !.toolResult = IF isAlreadyDone THEN result ELSE "undefined",
               !.toolError = (status = "failed")])]

\* case "tool_call"; toolName is deriveToolName(title, kind), result is
\* acpNormalizeToolResult(rawOutput, content)
toolCall(st, toolCallId, status, toolName, result) ==
    LET fin == finalizeACPStreamingMsg(closePendingACPTools(st))
        msgId == <<"tool", toolCallId>>
        isAlreadyDone == status = "completed" \/ status = "failed"
    IN IF findById(fin.messages, msgId) # 0 THEN fin
       ELSE [fin EXCEPT !.messages = Append(@,
                [BlankMsg(msgId, "tool_call") EXCEPT
                    !.toolName = toolName,
                    !.toolResult = IF isAlreadyDone THEN result ELSE "undefined",
                    !.toolError = (status = "failed")])]

\* toolCallUpdate opening a tool_call message for a toolCallId it does not find
toolCallUpdateOpensUnknown(st, toolCallId, status, result) ==
    LET i == findById(st.messages, <<"tool", toolCallId>>)
    IN IF i = 0
       THEN [st EXCEPT !.messages = Append(@,
                [BlankMsg(<<"tool", toolCallId>>, "tool_call") EXCEPT
                    !.toolResult = result, !.toolError = (status = "failed")])]
       ELSE [st EXCEPT !.messages[i].toolResult = IF result # "undefined" THEN result ELSE @,
                       !.messages[i].toolError = IF status = "failed" THEN TRUE ELSE @]

\* case "tool_call_update"
toolCallUpdate(st, toolCallId, status, result) ==
    LET i == findById(st.messages, <<"tool", toolCallId>>)
    IN IF i = 0 THEN st
       ELSE [st EXCEPT !.messages[i].toolResult = IF result # "undefined" THEN result ELSE @,
                       !.messages[i].toolError = IF status = "failed" THEN TRUE ELSE @]

\* usageUpdate closing the pending tool calls as the other updates do
usageUpdateClosesPending(st, amount) == [closePendingACPTools(st) EXCEPT !.totalCost = @ + amount]

\* case "usage_update"; amount is 0 when update.cost is absent (or its amount is 0)
usageUpdate(st, amount) == [st EXCEPT !.totalCost = @ + amount]

\* handleACPEvent; update is [sessionUpdate, text, toolCallId, status, toolName, result, amount]
handleACPUpdate(st, update) ==
    LET conn == [st EXCEPT !.isConnected = TRUE]
    IN CASE update.sessionUpdate = "agent_message_chunk" -> agentMessageChunk(conn, update.text)
         [] update.sessionUpdate = "agent_thought_chunk" -> agentThoughtChunk(conn, update.text)
         [] update.sessionUpdate = "tool_call" ->
                toolCall(conn, update.toolCallId, update.status, update.toolName, update.result)
         [] update.sessionUpdate = "tool_call_update" ->
                toolCallUpdate(conn, update.toolCallId, update.status, update.result)
         [] update.sessionUpdate = "usage_update" -> usageUpdate(conn, update.amount)
         [] OTHER -> conn

\* whether the update calls nextId (ensureACPStreamingMsg creates a message)
ACPAllocates(st, update) ==
    /\ update.sessionUpdate \in {"agent_message_chunk", "agent_thought_chunk"}
    /\ update.text # <<>>
    /\ st.currentStreamingMsgId = NoId

ACPEvent(sid, update) ==
    /\ ops < limit
    /\ sessions' = Put(sid, handleACPUpdate(getOrCreate(sid), update))
    /\ idCounter' = IF ACPAllocates(getOrCreate(sid), update) THEN idCounter + 1 ELSE idCounter
    /\ calls' = <<>>
    /\ last' = [Op(update.sessionUpdate, sid, update.toolCallId) EXCEPT
                    !.text = update.text, !.amount = update.amount]
    /\ Frame

\* handleACPTurnComplete that also drops the pending request (and keeps its raw form)
acpTurnCompleteDropsPermission(st) ==
    [closePendingACPTools(finalizeACPStreamingMsg(st)) EXCEPT
        !.isProcessing = FALSE, !.pendingPermission = "null"]

\* handleACPTurnComplete
acpTurnComplete(st) ==
    [closePendingACPTools(finalizeACPStreamingMsg(st)) EXCEPT !.isProcessing = FALSE]

ACPTurnComplete(sid) ==
    /\ ops < limit
    /\ sessions' = IF has(sid) THEN Put(sid, acpTurnComplete(sessions[sid])) ELSE sessions
    /\ calls' = IF has(sid)
                THEN <<[cb |-> "onProcessingChange", sid |-> sid, arg |-> "false"]>>
                ELSE <<>>
    /\ last' = Op("turn_complete", sid, "")
    /\ UNCHANGED idCounter
    /\ Frame

\* ---------------------------------------------------------------- store operations
\* setPermission without line 474 (the raw request of an earlier call stays)
SetPermissionKeepsRaw(sid, permission, raw) ==
    /\ ops < limit
    /\ sessions' = Put(sid, [getOrCreate(sid) EXCEPT !.pendingPermission = permission])
    /\ calls' = <<[cb |-> "onPermissionRequest", sid |-> sid, arg |-> permission]>>
    /\ last' = Op("setPermission", sid, permission)
    /\ UNCHANGED idCounter
    /\ Frame

\* setPermission; raw is rawAcpPermission ?? null
SetPermission(sid, permission, raw) ==
    /\ ops < limit
    /\ sessions' = Put(sid, [getOrCreate(sid) EXCEPT !.pendingPermission = permission,
                                                     !.rawAcpPermission = raw])
    /\ calls' = <<[cb |-> "onPermissionRequest", sid |-> sid, arg |-> permission]>>
    /\ last' = Op("setPermission", sid, permission)
    /\ UNCHANGED idCounter
    /\ Frame

\* the BackgroundSessionState of a record: what get and consume return
Public(st) ==
    [messages |-> st.messages, isProcessing |-> st.isProcessing,
     isConnected |-> st.isConnected, sessionInfo |-> st.sessionInfo,
     totalCost |-> st.totalCost, pendingPermission |-> st.pendingPermission,
     rawAcpPermission |-> st.rawAcpPermission]

\* get: the caller holds the returned value; a session unknown to the store yields undefined
Get(sid) ==
    /\ ops < limit
    /\ snap' = IF has(sid) THEN [sid |-> sid, state |-> Public(sessions[sid])] ELSE NoSnap
    /\ calls' = <<>>
    /\ last' = Op("get", sid, "")
    /\ Call
    /\ UNCHANGED <<sessions, idCounter, held>>

\* get whose returned value the caller keeps, to hand it to initFromState later
GetKept(sid) ==
    /\ ops < limit
    /\ has(sid)
    /\ held' = [sid |-> sid, state |-> Public(sessions[sid]), record |-> sessions[sid]]
    /\ snap' = [sid |-> sid, state |-> Public(sessions[sid])]
    /\ calls' = <<>>
    /\ last' = Op("get", sid, "kept")
    /\ Call
    /\ UNCHANGED <<sessions, idCounter>>

\* consume returning the state without line 501 (this.sessions.delete)
ConsumeKeepsEntry(sid) ==
    /\ ops < limit
    /\ sessions' = sessions
    /\ held' = IF has(sid)
               THEN [sid |-> sid, state |-> Public(sessions[sid]), record |-> sessions[sid]]
               ELSE held
    /\ calls' = <<>>
    /\ last' = Op("consume", sid, IF has(sid) THEN "moved" ELSE "undefined")
    /\ snap' = NoSnap
    /\ Call
    /\ UNCHANGED idCounter

\* consume: the record moves to the caller
Consume(sid) ==
    /\ ops < limit
    /\ sessions' = IF has(sid) THEN Remove(sid) ELSE sessions
    /\ held' = IF has(sid)
               THEN [sid |-> sid, state |-> Public(sessions[sid]), record |-> sessions[sid]]
               ELSE held
    /\ calls' = <<>>
    /\ last' = Op("consume", sid, IF has(sid) THEN "moved" ELSE "undefined")
    /\ snap' = NoSnap
    /\ Call
    /\ UNCHANGED idCounter

\* delete
Delete(sid) ==
    /\ ops < limit
    /\ sessions' = Remove(sid)
    /\ calls' = <<>>
    /\ last' = Op("delete", sid, "")
    /\ UNCHANGED idCounter
    /\ Frame

\* initFromState, lines 519-527: msg.id.replace(/^tool-/, "") -> msg.id for every
\* tool_call message with a step list
RECURSIVE rebuildParentToolMap(_, _)
rebuildParentToolMap(map, msgs) ==
    IF msgs = <<>> THEN map
    ELSE LET msg == Head(msgs)
             toolUseId == IF msg.id[1] = "tool" THEN msg.id[2] ELSE msg.id[1] \o "-" \o msg.id[2]
         IN rebuildParentToolMap(
                IF msg.role = "tool_call" /\ msg.hasSubagentSteps
                THEN MapSet(map, toolUseId, msg.id) ELSE map,
                Tail(msgs))

\* initFromState registering every tool_call message (line 523 without the test of
\* msg.subagentSteps !== undefined)
initFromStateMapsEveryTool(state) ==
    LET i == findLastStreaming(state.messages)
        tools == {k \in 1..Len(state.messages) :
                     state.messages[k].role = "tool_call" /\ state.messages[k].id[1] = "tool"}
    IN [messages |-> state.messages, isProcessing |-> state.isProcessing,
        isConnected |-> state.isConnected, sessionInfo |-> state.sessionInfo,
        totalCost |-> state.totalCost, pendingPermission |-> state.pendingPermission,
        rawAcpPermission |-> state.rawAcpPermission,
        parentToolMap |-> [t \in {state.messages[k].id[2] : k \in tools} |-> <<"tool", t>>],
        currentStreamingMsgId |-> IF i # 0 THEN state.messages[i].id ELSE NoId]

\* initFromState: the record installed for an external state
initFromState(state) ==
    LET i == findLastStreaming(state.messages)
    IN [messages |-> state.messages, isProcessing |-> state.isProcessing,
        isConnected |-> state.isConnected, sessionInfo |-> state.sessionInfo,
        totalCost |-> state.totalCost, pendingPermission |-> state.pendingPermission,
        rawAcpPermission |-> state.rawAcpPermission,
        parentToolMap |-> rebuildParentToolMap(<<>>, state.messages),
        currentStreamingMsgId |-> IF i # 0 THEN state.messages[i].id ELSE NoId]

\* initFromState(sid, state) with the state the foreground owner got from consume
InitFromState(sid) ==
    /\ ops < limit
    /\ held # NoHeld
    /\ sessions' = Put(sid, initFromState(held.state))
    /\ calls' = <<>>
    /\ last' = Op("initFromState", sid, "")
    /\ UNCHANGED idCounter
    /\ Frame

\* markDisconnected without the loop of lines 559-563
markDisconnectedKeepStreaming(st) ==
    [st EXCEPT !.isConnected = FALSE,
               !.pendingPermission = "null",
               !.rawAcpPermission = "null",
               !.isProcessing = FALSE]

\* markDisconnected, on a known session
markDisconnected(st) ==
    [st EXCEPT !.isConnected = FALSE,
               !.pendingPermission = "null",
               !.rawAcpPermission = "null",
               !.isProcessing = FALSE,
               !.messages = [i \in 1..Len(st.messages) |->
                                [st.messages[i] EXCEPT !.isStreaming = FALSE]]]

\* markDisconnectedCalls without the test of line 555
markDisconnectedCallsAlways(sid, st) ==
    <<[cb |-> "onProcessingChange", sid |-> sid, arg |-> "false"]>>

\* the callbacks markDisconnected invokes (lines 555-558)
markDisconnectedCalls(sid, st) ==
    IF st.isProcessing
    THEN <<[cb |-> "onProcessingChange", sid |-> sid, arg |-> "false"]>>
    ELSE <<>>

MarkDisconnected(sid) ==
    /\ ops < limit
    /\ sessions' = IF has(sid) THEN Put(sid, markDisconnected(sessions[sid])) ELSE sessions
    /\ calls' = IF has(sid) THEN markDisconnectedCalls(sid, sessions[sid]) ELSE <<>>
    /\ last' = Op("markDisconnected", sid,
                   IF ~has(sid) THEN "unknown"
                   ELSE IF last.op = "markDisconnected" /\ last.sid = sid THEN "again"
                   ELSE "known")
    /\ UNCHANGED idCounter
    /\ Frame

\* ---------------------------------------------------------------- the caller of get
\* The caller writes to the value get returned.  get builds a new state object, a new
\* messages array and a new object per message ({ ...m }), a copy of sessionInfo and of
\* pendingPermission: writes to those stay in the caller's value.
MutateSnapshotShallow(field) ==
    /\ ops < limit
    /\ snap # NoSnap
    /\ snap' = IF field = "isProcessing"
               THEN [snap EXCEPT !.state.isProcessing = ~@]
               ELSE IF field = "messages"
               THEN [snap EXCEPT !.state.messages = <<>>]
               ELSE [snap EXCEPT !.state.pendingPermission = "changed"]
    /\ calls' = <<>>
    /\ last' = Op("mutate-snapshot", snap.sid, field)
    /\ Call
    /\ UNCHANGED <<sessions, idCounter, held>>

\* The objects below the copied ones are the store's own: rawAcpPermission (line 493) and,
\* in each message, the toolResult object and the subagentSteps array ({ ...m } copies
\* the references).  A write through the returned value is a write to the store's object.
\* The store's record is the one get read as long as no store call came in between
\* (every store call ends the caller's hold on the value).
MutateSnapshotNested(part, i) ==
    /\ ops < limit
    /\ snap # NoSnap
    /\ snap.sid \in DOMAIN sessions
    /\ IF part = "rawAcpPermission"
       THEN /\ snap.state.rawAcpPermission # "null"
            /\ snap' = [snap EXCEPT !.state.rawAcpPermission = "changed"]
            /\ sessions' = [sessions EXCEPT ![snap.sid].rawAcpPermission = "changed"]
       ELSE IF part = "toolResult"
       THEN /\ i \in 1..Len(snap.state.messages)
            /\ snap.state.messages[i].toolResult # "undefined"
            /\ snap' = [snap EXCEPT !.state.messages[i].toolResult = "changed"]
            /\ sessions' = [sessions EXCEPT ![snap.sid].messages[i].toolResult = "changed"]
       ELSE /\ i \in 1..Len(snap.state.messages)
            /\ snap.state.messages[i].hasSubagentSteps
            /\ snap' = [snap EXCEPT !.state.messages[i].subagentSteps = <<>>]
            /\ sessions' = [sessions EXCEPT ![snap.sid].messages[i].subagentSteps = <<>>]
    /\ calls' = <<>>
    /\ last' = Op("mutate-snapshot", snap.sid, part)
    /\ Call
    /\ UNCHANGED <<idCounter, held>>

\* ---------------------------------------------------------------- the events delivered
\* assistant events: <<uuid, textContent, thinkingContent, tool_use blocks>>
AssistantInputs ==
    {<<u, t, th, <<>>>> : u \in Uuids, t \in FinalTexts, th \in FinalThinkings}
    \cup {<<"u1", <<>>, <<>>, <<[id |-> "t1", name |-> "Task"]>>>>,
          <<"u1", <<>>, <<>>, <<[id |-> "t2", name |-> "Bash"]>>>>,
          <<"u2", <<"b">>, <<>>, <<[id |-> "t1", name |-> "Task"], [id |-> "t2", name |-> "Bash"]>>>>}

\* turn results: <<total_cost_usd ?? 0, is_error, subtype, detail>>
ResultInputs ==
    {<<0, FALSE, "success", "">>, <<1, FALSE, "success", "">>, <<0, TRUE, "success", "">>,
     <<0, FALSE, "error_max_turns", "">>, <<1, TRUE, "error_during_execution", "boom">>}

Update(kind, text, toolCallId, status, toolName, result, amount) ==
    [sessionUpdate |-> kind, text |-> text, toolCallId |-> toolCallId, status |-> status,
     toolName |-> toolName, result |-> result, amount |-> amount]

ChunkUpdates ==
    {Update(k, t, "", "", "", "undefined", 0) :
        k \in {"agent_message_chunk", "agent_thought_chunk"}, t \in {<<>>, <<"a">>}}

ToolCallUpdates ==
    {Update("tool_call", <<>>, "t1", "pending", "Bash", "undefined", 0),
     Update("tool_call", <<>>, "t2", "pending", "Bash", "undefined", 0),
     Update("tool_call", <<>>, "t2", "completed", "Bash", "r1", 0),
     Update("tool_call", <<>>, "t2", "completed", "Bash", "undefined", 0),
     Update("tool_call", <<>>, "t2", "failed", "Bash", "undefined", 0)}

ToolCallUpdateUpdates ==
    {Update("tool_call_update", <<>>, t, st, "", r, 0) :
        t \in {"t1"}, st \in {"in_progress", "completed", "failed"}, r \in {"undefined", "r2"}}

UsageUpdates == {Update("usage_update", <<>>, "", "", "", "undefined", a) : a \in {0, 1}}

\* turn results of every subtype, with and without the error flag and a detail
ResultInputsAll ==
    {<<1, e, s, d>> :
        e \in BOOLEAN,
        s \in {"success", "error_max_turns", "error_max_budget_usd",
               "error_max_structured_output_retries", "error_during_execution",
               "error_unknown"},
        d \in {"", "boom"}}

\* the tool_use blocks of a nested assistant event
NestedUses == <<[id |-> "n1", name |-> "Bash"]>>

\* ---------------------------------------------------------------- specifications
\* the store after construction
Init ==
    /\ sessions = <<>>
    /\ idCounter = 0
    /\ calls = <<>>
    /\ last = Op("init", "", "")
    /\ held = NoHeld
    /\ snap = NoSnap
    /\ ops = 0

InitA == Init /\ limit = MaxOpsA

NextA ==
    \/ SystemStatus("s1")
    \/ \E info \in Infos : SystemInit("s1", info)
    \/ MessageStart("s1")
    \/ \E text \in Deltas : ContentBlockDelta("s1", "text_delta", text)
    \/ \E text \in ThinkingDeltas : ContentBlockDelta("s1", "thinking_delta", text)
    \/ MessageDelta("s1")
    \/ MessageStop("s1")
    \/ \E a \in AssistantInputs : AssistantEvent("s1", a[1], a[2], a[3], a[4])
    \/ \E isTR \in BOOLEAN, t \in ToolIds, r \in {"undefined", "r1"} : UserEvent("s1", isTR, t, r)
    \/ \E r \in ResultInputs : ResultEvent("s1", r[1], r[2], r[3], r[4])
    \/ MarkDisconnected("s1")

SpecA == InitA /\ [][NextA]_vars
\* the store's operations, with the events that set what they read
InitStore == Init /\ limit = MaxOpsStore

NextStore ==
    \/ SystemInit("s1", "info1")
    \/ MessageStart("s1")
    \/ MessageStop("s1")
    \/ ContentBlockDelta("s1", "text_delta", <<"a">>)
    \/ AssistantEvent("s1", "u1", <<>>, <<>>, <<[id |-> "t1", name |-> "Task"]>>)
    \/ UserEvent("s1", TRUE, "t1", "r1")
    \/ SubagentEvent("s1", "assistant", "t1", <<[id |-> "t2", name |-> "Bash"]>>, "", "undefined")
    \/ ACPEvent("s1", Update("agent_message_chunk", <<"a">>, "", "", "", "undefined", 0))
    \/ ACPTurnComplete("s1")
    \/ \E perm \in Permissions, raw \in RawPermissions : SetPermission("s1", perm, raw)
    \/ Get("s1")
    \/ \E field \in {"isProcessing", "messages", "pendingPermission"} : MutateSnapshotShallow(field)
    \/ \E part \in {"rawAcpPermission", "toolResult", "subagentSteps"}, i \in 1..MaxOpsStore :
           MutateSnapshotNested(part, i)
    \/ Consume("s1")
    \/ Delete("s1")
    \/ InitFromState("s1")
    \/ MarkDisconnected("s1")

SpecStore == InitStore /\ [][NextStore]_vars
\* every operation, on two sessions
InitAll == Init /\ limit = MaxOps

Next ==
    \E sid \in AllSids :
        \/ SystemStatus(sid)
        \/ \E info \in Infos : SystemInit(sid, info)
        \/ MessageStart(sid)
        \/ \E text \in Deltas : ContentBlockDelta(sid, "text_delta", text)
        \/ \E text \in ThinkingDeltas : ContentBlockDelta(sid, "thinking_delta", text)
        \/ MessageDelta(sid)
        \/ MessageStop(sid)
        \/ \E a \in AssistantInputs : AssistantEvent(sid, a[1], a[2], a[3], a[4])
        \/ \E isTR \in BOOLEAN, t \in ToolIds, r \in {"undefined", "r1"} : UserEvent(sid, isTR, t, r)
        \/ \E r \in ResultInputs : ResultEvent(sid, r[1], r[2], r[3], r[4])
        \/ \E type \in {"assistant", "user", "other"}, parentId \in ToolIds,
              r \in {"undefined", "r1"} :
               SubagentEvent(sid, type, parentId, <<[id |-> "t2", name |-> "Bash"]>>, "t2", r)
        \/ \E update \in ChunkUpdates \cup ToolCallUpdates \cup ToolCallUpdateUpdates
                            \cup UsageUpdates : ACPEvent(sid, update)
        \/ ACPTurnComplete(sid)
        \/ \E perm \in Permissions, raw \in RawPermissions : SetPermission(sid, perm, raw)
        \/ Get(sid)
        \/ \E field \in {"isProcessing", "messages", "pendingPermission"} :
               MutateSnapshotShallow(field)
        \/ \E part \in {"rawAcpPermission", "toolResult", "subagentSteps"}, i \in 1..MaxOps :
               MutateSnapshotNested(part, i)
        \/ Consume(sid)
        \/ Delete(sid)
        \/ InitFromState(sid)
        \/ MarkDisconnected(sid)

Spec == InitAll /\ [][Next]_vars

\* the tool_call updates of SpecB: one pending, and terminal ones with and without an
\* output that acpNormalizeToolResult turns into a result
ToolCallOpens ==
    {Update("tool_call", <<>>, "t1", "pending", "Bash", "undefined", 0),
     Update("tool_call", <<>>, "t2", "completed", "Bash", "r1", 0),
     Update("tool_call", <<>>, "t2", "completed", "Bash", "undefined", 0),
     Update("tool_call", <<>>, "t2", "failed", "Bash", "undefined", 0)}

\* Protocol B on one session, with the operations a session goes through
InitB == Init /\ limit = MaxOpsB

NextB ==
    \/ \E text \in {<<>>, <<"a">>} :
           ACPEvent("s1", Update("agent_message_chunk", text, "", "", "", "undefined", 0))
    \/ ACPEvent("s1", Update("agent_thought_chunk", <<"a">>, "", "", "", "undefined", 0))
    \/ \E update \in ToolCallOpens : ACPEvent("s1", update)
    \/ \E update \in {Update("tool_call_update", <<>>, "t1", "in_progress", "", "undefined", 0),
                       Update("tool_call_update", <<>>, "t1", "completed", "", "r2", 0),
                       Update("tool_call_update", <<>>, "t1", "failed", "", "undefined", 0)} :
           ACPEvent("s1", update)
    \/ \E update \in UsageUpdates : ACPEvent("s1", update)
    \/ ACPTurnComplete("s1")
    \/ ResultEvent("s1", 1, FALSE, "success", "")
    \/ SetPermission("s1", "p1", "null")
    \/ MarkDisconnected("s1")
    \/ Consume("s1")
    \/ InitFromState("s1")

SpecB == InitB /\ [][NextB]_vars

\* Protocol A with nested-agent events on one session
InitSub == Init /\ limit = MaxOpsSub

NextSub ==
    \/ SystemInit("s1", "info1")
    \/ MessageStart("s1")
    \/ \E block \in {[id |-> "t1", name |-> "Task"], [id |-> "t2", name |-> "Bash"]} :
           AssistantEvent("s1", "u1", <<>>, <<>>, <<block>>)
    \/ \E r \in {"undefined", "r2"} : UserEvent("s1", TRUE, "t1", r)
    \/ \E parentId \in ToolIds : SubagentEvent("s1", "assistant", parentId, NestedUses, "", "undefined")
    \/ \E parentId \in ToolIds, r \in {"undefined", "r1"} :
           SubagentEvent("s1", "user", parentId, <<>>, NestedUses[1].id, r)
    \/ \E parentId \in ToolIds : SubagentEvent("s1", "other", parentId, <<>>, "", "undefined")
    \/ ResultEvent("s1", 1, FALSE, "success", "")
    \/ MarkDisconnected("s1")
    \/ Consume("s1")
    \/ InitFromState("s1")

SpecSub == InitSub /\ [][NextSub]_vars

\* two sessions: every kind of call on one, next to a second one that holds a record
InitTwo == Init /\ limit = MaxOpsTwo

NextTwo ==
    \/ \E sid \in AllSids : SystemInit(sid, "info1")
    \/ \E sid \in AllSids : MessageStart(sid)
    \/ \E sid \in AllSids :
           AssistantEvent(sid, "u1", <<"b">>, <<>>, <<[id |-> "t1", name |-> "Task"]>>)
    \/ \E sid \in AllSids : SetPermission(sid, "p1", "raw1")
    \/ \E sid \in AllSids : InitFromState(sid)
    \/ ContentBlockDelta("s1", "text_delta", <<"a">>)
    \/ MessageDelta("s1")
    \/ UserEvent("s1", TRUE, "t1", "r1")
    \/ SubagentEvent("s1", "assistant", "t1", NestedUses, "", "undefined")
    \/ ResultEvent("s1", 1, TRUE, "error_max_turns", "")
    \/ \E update \in {Update("agent_message_chunk", <<"a">>, "", "", "", "undefined", 0),
                       Update("tool_call", <<>>, "t2", "pending", "Bash", "undefined", 0),
                       Update("usage_update", <<>>, "", "", "", "undefined", 1)} :
           ACPEvent("s1", update)
    \/ ACPTurnComplete("s1")
    \/ MarkDisconnected("s1")
    \/ Consume("s1")
    \/ Delete("s1")

SpecTwo == InitTwo /\ [][NextTwo]_vars

\* the hand-over of a session between the store and the foreground owner
InitMove == Init /\ limit = MaxOpsMove

NextMove ==
    \/ SystemInit("s1", "info1")
    \/ MessageStart("s1")
    \/ ContentBlockDelta("s1", "text_delta", <<"a">>)
    \/ ResultEvent("s1", 1, FALSE, "success", "")
    \/ ACPEvent("s1", Update("usage_update", <<>>, "", "", "", "undefined", 1))
    \/ SetPermission("s1", "p1", "raw1")
    \/ Get("s1")
    \/ Consume("s1")
    \/ InitFromState("s1")
    \/ Delete("s1")
    \/ MarkDisconnected("s1")

SpecMove == InitMove /\ [][NextMove]_vars

\* the transcript of one session fed by both protocols
InitMsg == Init /\ limit = MaxOpsMsg

NextMsg ==
    \/ MessageStart("s1")
    \/ ContentBlockDelta("s1", "text_delta", <<"a">>)
    \/ ContentBlockDelta("s1", "thinking_delta", <<"r">>)
    \/ MessageDelta("s1")
    \/ \E a \in {<<<<>>, <<>>, <<>>>>, <<<<"b">>, <<"q">>, <<>>>>,
                  <<<<>>, <<>>, <<[id |-> "t1", name |-> "Task"]>>>>} :
           AssistantEvent("s1", "u1", a[1], a[2], a[3])
    \/ \E t \in ToolIds, r \in {"undefined", "r1"} : UserEvent("s1", TRUE, t, r)
    \/ \E update \in {Update("agent_message_chunk", <<"a">>, "", "", "", "undefined", 0),
                       Update("agent_thought_chunk", <<"a">>, "", "", "", "undefined", 0),
                       Update("tool_call", <<>>, "t2", "pending", "Bash", "undefined", 0)} :
           ACPEvent("s1", update)
    \/ \E t \in ToolIds, r \in {"undefined", "r2"} :
           ACPEvent("s1", Update("tool_call_update", <<>>, t, "failed", "", r, 0))
    \/ ACPTurnComplete("s1")
    \/ MarkDisconnected("s1")
    \/ Consume("s1")
    \/ InitFromState("s1")

SpecMsg == InitMsg /\ [][NextMsg]_vars

\* the turn results of Protocol A, between the calls that start and end processing
InitResult == Init /\ limit = MaxOpsResult

NextResult ==
    \/ SystemInit("s1", "info1")
    \/ MessageStart("s1")
    \/ \E r \in ResultInputsAll : ResultEvent("s1", r[1], r[2], r[3], r[4])
    \/ ACPTurnComplete("s1")
    \/ MarkDisconnected("s1")

SpecResult == InitResult /\ [][NextResult]_vars

\* tool_use blocks of assistant events that name a correlation id again, under another
\* tool name and twice in one event
DedupToolUses ==
    {<<[id |-> "t1", name |-> "Task"]>>,
     <<[id |-> "t1", name |-> "Bash"]>>,
     <<[id |-> "t2", name |-> "Task"]>>,
     <<[id |-> "t1", name |-> "Task"], [id |-> "t1", name |-> "Task"]>>}

\* tool-use requests of both protocols on one session, with results and nested steps
InitDedup == Init /\ limit = MaxOpsDedup

NextDedup ==
    \/ \E blocks \in DedupToolUses : AssistantEvent("s1", "u1", <<>>, <<>>, blocks)
    \/ \E update \in ToolCallOpens : ACPEvent("s1", update)
    \/ UserEvent("s1", TRUE, "t1", "r1")
    \/ SubagentEvent("s1", "assistant", "t1", NestedUses, "", "undefined")
    \/ Consume("s1")
    \/ InitFromState("s1")

SpecDedup == InitDedup /\ [][NextDedup]_vars

\* one Protocol A message from message_start to the assistant event that repeats its
\* text, with the process going away in between
InitTurn == Init /\ limit = MaxOpsTurn

NextTurn ==
    \/ MessageStart("s1")
    \/ ContentBlockDelta("s1", "text_delta", <<"a">>)
    \/ ContentBlockDelta("s1", "thinking_delta", <<"r">>)
    \/ MessageDelta("s1")
    \/ MessageStop("s1")
    \/ \E textContent \in {<<>>, <<"a">>} : AssistantEvent("s1", "u1", textContent, <<>>, <<>>)
    \/ MarkDisconnected("s1")

SpecTurn == InitTurn /\ [][NextTurn]_vars

\* permission requests on one session between events of both protocols; initFromState
\* is given a state that consume or get returned
InitPerm == Init /\ limit = MaxOpsPerm

NextPerm ==
    \/ SystemInit("s1", "info1")
    \/ MessageStart("s1")
    \/ ResultEvent("s1", 1, TRUE, "error_max_turns", "")
    \/ ACPEvent("s1", Update("agent_message_chunk", <<"a">>, "", "", "", "undefined", 0))
    \/ ACPEvent("s1", Update("tool_call", <<>>, "t1", "pending", "Bash", "undefined", 0))
    \/ ACPTurnComplete("s1")
    \/ \E raw \in RawPermissions : SetPermission("s1", "p1", raw)
    \/ MarkDisconnected("s1")
    \/ GetKept("s1")
    \/ Consume("s1")
    \/ InitFromState("s1")
    \/ Delete("s1")

SpecPerm == InitPerm /\ [][NextPerm]_vars

\* ---------------------------------------------------------------- claims
Messages(sid) == sessions[sid].messages

IsEmptyAssistant(m) == m.role = "assistant" /\ m.content = <<>> /\ m.thinking = <<>>

\* C1: at most one message of a session's transcript has isStreaming = true.
C1_AtMostOneStreaming ==
    \A sid \in DOMAIN sessions :
        Cardinality({i \in 1..Len(Messages(sid)) : Messages(sid)[i].isStreaming}) <= 1

\* C2, as claimed: the message an assistant-finalized event carrying text T reconciles
\* with has, if it stays in the transcript, the text T.
C2_FinalizedTextIsT ==
    [][(last'.op = "assistant" /\ last'.sid \in DOMAIN sessions
           /\ assistantTarget(getOrCreate(last'.sid)) # 0)
       => LET before == Messages(last'.sid)[assistantTarget(sessions[last'.sid])]
              kept == findById(sessions'[last'.sid].messages, before.id)
          IN kept # 0 => sessions'[last'.sid].messages[kept].content = last'.text]_vars

\* C2, amended: the message an assistant-finalized event carrying text T reconciles with
\* has, if it stays in the transcript, the text T when T is not empty, and the text it
\* had accumulated when T is empty.
C2_FinalizedTextOverwrites ==
    [][(last'.op = "assistant" /\ last'.sid \in DOMAIN sessions
           /\ assistantTarget(getOrCreate(last'.sid)) # 0)
       => LET before == Messages(last'.sid)[assistantTarget(sessions[last'.sid])]
              kept == findById(sessions'[last'.sid].messages, before.id)
          IN kept # 0 => sessions'[last'.sid].messages[kept].content =
                             IF last'.text # <<>> THEN last'.text ELSE before.content]_vars

\* C2's case: a message opened by message-start, holding reasoning from a delta, whose
\* text an assistant-finalized event has set to its own
C2_Witness ==
    /\ last.op = "assistant"
    /\ has("s1")
    /\ \E i \in 1..Len(Messages("s1")) :
          /\ Messages("s1")[i].id[1] = "stream-bg"
          /\ Messages("s1")[i].content = <<"b">>
          /\ Messages("s1")[i].thinking = <<"r">>

\* C3: once a turn-result was ingested or the session marked disconnected, and no message
\* is receiving deltas any more, the transcript holds no assistant message with empty
\* text and empty reasoning.
C3_NoEmptyAssistantAfterTurn ==
    \A sid \in DOMAIN sessions :
        (last.op \in {"result", "markDisconnected"} /\ last.sid = sid
            /\ sessions[sid].currentStreamingMsgId = NoId)
        => \A i \in 1..Len(Messages(sid)) : ~IsEmptyAssistant(Messages(sid)[i])

\* C4: seed(id, s) right after s = consume(id) on a known session installs the record
\* consume removed, parentToolMap and currentStreamingMsgId included.
C4_ConsumeSeedRestores ==
    [][(last.op = "consume" /\ last.key = "moved" /\ last'.op = "initFromState"
           /\ last'.sid = last.sid)
       => sessions'[last.sid] = held.record]_vars

\* C5: no write to the value get returned changes the store's state.
C5_SnapshotIndependent ==
    [][last'.op = "mutate-snapshot" => sessions' = sessions]_vars

\* C6: pendingPermission is null whenever isConnected is false.
C6_NoPermissionWhileDisconnected ==
    \A sid \in DOMAIN sessions :
        ~sessions[sid].isConnected => sessions[sid].pendingPermission = "null"

\* C7: a tool_call message that has a result has one after every event, turn-complete
\* and mark-disconnected.
C7_ResultNeverCleared ==
    [][\A sid \in DOMAIN sessions \cap DOMAIN sessions' :
          last'.op \notin {"delete", "consume", "initFromState", "mutate-snapshot"}
          => \A i \in 1..Len(sessions[sid].messages) :
                (sessions[sid].messages[i].role = "tool_call"
                    /\ sessions[sid].messages[i].toolResult # "undefined")
                => \E j \in 1..Len(sessions'[sid].messages) :
                      /\ sessions'[sid].messages[j].id = sessions[sid].messages[i].id
                      /\ sessions'[sid].messages[j].toolResult # "undefined"]_vars

\* C8: no two messages of a session's transcript have the same id.
C8_UniqueMessageIds ==
    \A sid \in DOMAIN sessions :
        \A i, j \in 1..Len(Messages(sid)) :
            i # j => Messages(sid)[i].id # Messages(sid)[j].id

\* C9: markDisconnected right after markDisconnected on the same session changes nothing
\* and invokes no callback; on a session the store does not know it changes nothing,
\* creates no record and invokes no callback.
C9_MarkDisconnectedIdempotent ==
    [][last'.op = "markDisconnected"
       => /\ (last.op = "markDisconnected" /\ last.sid = last'.sid)
              => (sessions' = sessions /\ calls' = <<>>)
          /\ (last'.sid \notin DOMAIN sessions)
              => (sessions' = sessions /\ calls' = <<>>)]_vars

\* C9's case: a second markDisconnected in a row on a session that holds messages
C9_Witness ==
    /\ last.op = "markDisconnected"
    /\ last.key = "again"
    /\ has("s1")
    /\ Len(Messages("s1")) > 0
    /\ sessions["s1"].sessionInfo # "null"

\* C10: after markDisconnected on a known session isConnected is false, pendingPermission
\* and rawAcpPermission are null, isProcessing is false, no message is streaming, and
\* onProcessingChange was invoked with (id, false) once if isProcessing was true and not
\* at all otherwise.
C10_MarkDisconnectedPost ==
    [][(last'.op = "markDisconnected" /\ last'.sid \in DOMAIN sessions)
       => LET sid == last'.sid
          IN /\ sid \in DOMAIN sessions'
             /\ ~sessions'[sid].isConnected
             /\ sessions'[sid].pendingPermission = "null"
             /\ sessions'[sid].rawAcpPermission = "null"
             /\ ~sessions'[sid].isProcessing
             /\ \A i \in 1..Len(sessions'[sid].messages) : ~sessions'[sid].messages[i].isStreaming
             /\ calls' = IF sessions[sid].isProcessing
                         THEN <<[cb |-> "onProcessingChange", sid |-> sid, arg |-> "false"]>>
                         ELSE <<>>]_vars

\* C10's case: markDisconnected on a known session that was processing (the callback
\* fired) and had a message receiving deltas
C10_Witness ==
    /\ last.op = "markDisconnected"
    /\ last.key = "known"
    /\ calls # <<>>
    /\ has("s1")
    /\ sessions["s1"].currentStreamingMsgId # NoId
    /\ Len(Messages("s1")) > 0

\* a tool_call message with no result and no error flag
IsPending(m) == m.role = "tool_call" /\ m.toolResult = "undefined" /\ ~m.toolError

\* C11: after a Protocol B update other than usage_update (agent_message_chunk,
\* agent_thought_chunk, tool_call, tool_call_update) no tool_call message that was
\* pending before the update is pending.
C11_UpdateClosesPending ==
    [][(last'.op \in {"agent_message_chunk", "agent_thought_chunk", "tool_call",
                      "tool_call_update"}
           /\ last'.sid \in DOMAIN sessions)
       => \A i \in 1..Len(Messages(last'.sid)) :
             IsPending(Messages(last'.sid)[i])
             => \A j \in 1..Len(sessions'[last'.sid].messages) :
                   sessions'[last'.sid].messages[j].id = Messages(last'.sid)[i].id
                   => ~IsPending(sessions'[last'.sid].messages[j])]_vars

\* a tool_call update whose toolCallId has a tool_call message in the session
IsDuplicateOpen(sid, toolCallId) ==
    sid \in DOMAIN sessions /\ findById(Messages(sid), <<"tool", toolCallId>>) # 0

\* C12, as claimed: a tool_call whose toolCallId already has a message leaves the
\* transcript (every message's result, error flag and streaming flag) and
\* currentStreamingMsgId as they were.
C12_DuplicateOpenNoOp ==
    [][(last'.op = "tool_call" /\ IsDuplicateOpen(last'.sid, last'.key))
       => /\ sessions'[last'.sid].messages = Messages(last'.sid)
          /\ sessions'[last'.sid].currentStreamingMsgId =
                 sessions[last'.sid].currentStreamingMsgId]_vars

\* C12, amended: a tool_call whose toolCallId already has a message appends no message
\* and changes no message's id, role, text, reasoning, tool name, error flag or steps;
\* it gives every pending tool_call message the neutral result, un-streams the message
\* currentStreamingMsgId names (finishing its reasoning) and unsets currentStreamingMsgId.
C12_DuplicateOpenAppendsNothing ==
    [][(last'.op = "tool_call" /\ IsDuplicateOpen(last'.sid, last'.key))
       => LET before == sessions[last'.sid]
              after == sessions'[last'.sid]
          IN /\ Len(after.messages) = Len(before.messages)
             /\ after.currentStreamingMsgId = NoId
             /\ \A i \in 1..Len(before.messages) :
                   LET m == before.messages[i]
                       current == before.currentStreamingMsgId # NoId
                                  /\ i = findById(before.messages, before.currentStreamingMsgId)
                   IN after.messages[i] =
                          [m EXCEPT !.toolResult = IF IsPending(m) THEN "completed" ELSE @,
                                    !.isStreaming = IF current THEN FALSE ELSE @,
                                    !.thinkingComplete =
                                        IF current /\ m.thinking # <<>> THEN TRUE ELSE @]]_vars

\* C12's case: a second tool_call for a toolCallId whose message was pending: the
\* transcript holds one message for it, closed with the neutral result
C12_Witness ==
    /\ last.op = "tool_call"
    /\ has("s1")
    /\ Cardinality({i \in 1..Len(Messages("s1")) :
                       Messages("s1")[i].id = <<"tool", last.key>>}) = 1
    /\ \E i \in 1..Len(Messages("s1")) :
          /\ Messages("s1")[i].id = <<"tool", last.key>>
          /\ Messages("s1")[i].toolResult = "completed"

\* C13: in a session with no message for P, a top-level assistant event with the Task
\* tool_use P, a nested assistant event with parent P carrying the tool_use U and a
\* nested tool_result for U with parent P leave exactly one message for P, a tool_call
\* whose subagentSteps is the one step U with the result; the nested events add no
\* message and change no other one; the host's toolResult is unset and its
\* subagentStatus running, until a top-level tool_result for P sets them.
C13_NestedScenario ==
    \A sid \in DOMAIN sessions, P \in ToolIds :
        LET U == NestedUses[1].id
            st0 == sessions[sid]
            st1 == assistantCase(st0, "u1", <<>>, <<>>, <<[id |-> P, name |-> "Task"]>>)
            st2 == handleSubagentEvent(st1, "assistant", P, NestedUses, "", "undefined")
            st3 == handleSubagentEvent(st2, "user", P, <<>>, U, "r1")
            st4 == userCase(st3, P, "r2")
            h == findById(st3.messages, <<"tool", P>>)
        IN findById(st0.messages, <<"tool", P>>) = 0
           => /\ Cardinality({i \in 1..Len(st3.messages) :
                                 st3.messages[i].id = <<"tool", P>>}) = 1
              /\ st3.messages[h].role = "tool_call"
              /\ Len(st3.messages[h].subagentSteps) = 1
              /\ st3.messages[h].subagentSteps[1].toolUseId = U
              /\ st3.messages[h].subagentSteps[1].toolResult = "r1"
              /\ Len(st3.messages) = Len(st1.messages)
              /\ \A i \in 1..Len(st3.messages) : i # h => st3.messages[i] = st1.messages[i]
              /\ \A i \in 1..Len(st3.messages) : st3.messages[i].id # <<"tool", U>>
              /\ st3.messages[h].toolResult = "undefined"
              /\ st3.messages[h].subagentStatus = "running"
              /\ st4.messages[h].toolResult = "r2"
              /\ st4.messages[h].subagentStatus = "completed"

\* C13's case: the three events were delivered to a new session
C13_Witness ==
    /\ last.op = "subagent-user"
    /\ last.key = "t1"
    /\ has("s1")
    /\ Len(Messages("s1")) = 1
    /\ Messages("s1")[1].id = <<"tool", "t1">>
    /\ Messages("s1")[1].subagentSteps =
           <<[toolName |-> "Bash", toolUseId |-> "n1", toolResult |-> "r1"]>>
    /\ Messages("s1")[1].toolResult = "undefined"
    /\ Messages("s1")[1].subagentStatus = "running"

\* the parts of a record C14 names
Observed(st) ==
    [messages |-> st.messages, isProcessing |-> st.isProcessing,
     isConnected |-> st.isConnected, sessionInfo |-> st.sessionInfo,
     totalCost |-> st.totalCost, pendingPermission |-> st.pendingPermission,
     currentStreamingMsgId |-> st.currentStreamingMsgId]

\* C14: an event with a parent id that is not in the session's parentToolMap leaves the
\* session's messages, isProcessing, isConnected, sessionInfo, totalCost,
\* pendingPermission and currentStreamingMsgId as they were (as a new record has them,
\* for a session the store did not know) and invokes no callback.
C14_UnknownParentDropped ==
    [][(last'.op \in {"subagent-assistant", "subagent-user", "subagent-other"}
           /\ last'.key \notin DOMAIN getOrCreate(last'.sid).parentToolMap)
       => /\ Observed(sessions'[last'.sid]) = Observed(getOrCreate(last'.sid))
          /\ calls' = <<>>]_vars

\* C14's case: a nested assistant event whose parent id is not registered, in a session
\* whose transcript holds the (untracked) tool_call message of that id
C14_Witness ==
    /\ last.op = "subagent-assistant"
    /\ has("s1")
    /\ last.key \notin DOMAIN sessions["s1"].parentToolMap
    /\ findById(Messages("s1"), <<"tool", last.key>>) # 0

\* C15: as long as a session's record is the same one (it is not deleted, consumed or
\* replaced by initFromState) no call decreases its totalCost; markDisconnected,
\* handleACPTurnComplete and setPermission leave it unchanged, a result adds its cost, and
\* initFromState installs the totalCost of the state it is given.
C15_TotalCostMonotonic ==
    [][/\ \A sid \in DOMAIN sessions \cap DOMAIN sessions' :
             /\ ~(last'.op = "initFromState" /\ last'.sid = sid)
                    => sessions'[sid].totalCost >= sessions[sid].totalCost
             /\ last'.op \in {"markDisconnected", "turn_complete", "setPermission"}
                    => sessions'[sid].totalCost = sessions[sid].totalCost
             /\ (last'.op = "result" /\ last'.sid = sid)
                    => sessions'[sid].totalCost = sessions[sid].totalCost + last'.amount
       /\ last'.op = "initFromState"
              => sessions'[last'.sid].totalCost = held.state.totalCost]_vars

\* C15's case: a result added its cost to the cost usage updates had accumulated
C15_Witness ==
    /\ last.op = "result"
    /\ last.amount = 1
    /\ has("s1")
    /\ sessions["s1"].totalCost = 3

\* C16: a usage_update adds its cost amount (0 when it carries no cost) to totalCost and
\* leaves the transcript as it was, pending tool_call messages included.
C16_UsageUpdateAddsCost ==
    [][last'.op = "usage_update"
       => /\ sessions'[last'.sid].totalCost = getOrCreate(last'.sid).totalCost + last'.amount
          /\ sessions'[last'.sid].messages = getOrCreate(last'.sid).messages]_vars

\* C16's case: the second of two usage updates with a cost, while a tool call is pending
C16_Witness ==
    /\ last.op = "usage_update"
    /\ last.amount = 1
    /\ has("s1")
    /\ sessions["s1"].totalCost = 2
    /\ \E i \in 1..Len(Messages("s1")) : IsPending(Messages("s1")[i])

\* C17: after handleACPTurnComplete on a known session no message is streaming,
\* currentStreamingMsgId is unset, no tool_call message is pending, isProcessing is false
\* and onProcessingChange was invoked with (id, false); on an unknown session the call
\* changes nothing and invokes no callback.
C17_TurnCompletePost ==
    [][last'.op = "turn_complete"
       => IF last'.sid \in DOMAIN sessions
          THEN LET st == sessions'[last'.sid]
               IN /\ \A i \in 1..Len(st.messages) :
                        ~st.messages[i].isStreaming /\ ~IsPending(st.messages[i])
                  /\ st.currentStreamingMsgId = NoId
                  /\ ~st.isProcessing
                  /\ calls' = <<[cb |-> "onProcessingChange", sid |-> last'.sid,
                                 arg |-> "false"]>>
          ELSE sessions' = sessions /\ calls' = <<>>]_vars

\* the events of the two protocols (status pings aside), by the name the last call is
\* recorded under
EventOps ==
    {"system", "message_start", "text_delta", "thinking_delta",
     "message_delta", "message_stop", "assistant", "tool_result", "user", "result",
     "subagent-assistant", "subagent-user", "subagent-other",
     "agent_message_chunk", "agent_thought_chunk", "tool_call", "tool_call_update",
     "usage_update"}

\* C18: right after any event of either protocol is ingested for a session, the session's
\* isConnected is true.
C18_ConnectedAfterEvent ==
    \A sid \in DOMAIN sessions :
        (last.op \in EventOps /\ last.sid = sid) => sessions[sid].isConnected

\* C19: right after the first event of a turn (Protocol A: system init or message_start;
\* Protocol B: a message chunk, thought chunk or tool_call that creates the session's
\* record) the session's isProcessing is true.
C19_ProcessingAfterTurnStart ==
    [][(\/ last'.op \in {"system", "message_start"}
        \/ /\ last'.op \in {"agent_message_chunk", "agent_thought_chunk", "tool_call"}
           /\ last'.sid \notin DOMAIN sessions)
       => sessions'[last'.sid].isProcessing]_vars

\* C20: a call for one session (an event, handleACPTurnComplete, setPermission,
\* markDisconnected, initFromState, consume or delete) leaves every other session as it
\* was: it gets no record, loses none, and its record is unchanged.
C20_SessionsIsolated ==
    [][\A sid \in AllSids \ {last'.sid} :
          /\ (sid \in DOMAIN sessions') = (sid \in DOMAIN sessions)
          /\ sid \in DOMAIN sessions => sessions'[sid] = sessions[sid]]_vars

\* C20's case: markDisconnected on one session while another one is connected and
\* processing, with a permission request and a message that receives deltas
C20_Witness ==
    /\ last.op = "markDisconnected"
    /\ last.sid = "s1"
    /\ has("s1") /\ has("s2")
    /\ Len(Messages("s1")) > 0
    /\ sessions["s2"].isConnected /\ sessions["s2"].isProcessing
    /\ sessions["s2"].pendingPermission # "null"
    /\ sessions["s2"].currentStreamingMsgId # NoId

\* C21: setPermission(id, request, raw) leaves the session with request as its
\* pendingPermission and raw (null when none is given) as its rawAcpPermission, whatever
\* request was pending, changes nothing else of the record, and invokes
\* onPermissionRequest once, with (id, request).
C21_SetPermissionPost ==
    [][last'.op = "setPermission"
       => \A permission \in Permissions, raw \in RawPermissions :
             SetPermission(last'.sid, permission, raw)
             => /\ sessions'[last'.sid] =
                       [getOrCreate(last'.sid) EXCEPT !.pendingPermission = permission,
                                                      !.rawAcpPermission = raw]
                /\ calls' = <<[cb |-> "onPermissionRequest", sid |-> last'.sid,
                               arg |-> permission]>>]_vars

\* C21's case: a request without a raw form has replaced an outstanding one (the one the
\* session was seeded with, which had a raw form; the five calls are a message_start,
\* the first setPermission, consume, initFromState and this setPermission)
C21_Witness ==
    /\ ops = 5
    /\ last.op = "setPermission"
    /\ last.key = "p2"
    /\ has("s1")
    /\ sessions["s1"].pendingPermission = "p2"
    /\ sessions["s1"].rawAcpPermission = "null"
    /\ held # NoHeld
    /\ held.state.pendingPermission = "p1"
    /\ held.state.rawAcpPermission = "raw1"
    /\ sessions["s1"].messages = held.state.messages
    /\ Len(Messages("s1")) > 0

\* C22: consume of a known session hands out the record's state and removes the entry:
\* has(id) is false, and a get that finds no entry returns undefined; the call that
\* follows a consume for the same session finds no record, so an event starts from a
\* new one (it leaves at most the one message it adds, totalCost equal to its own cost,
\* and sessionInfo null unless it is the system init); consume of an unknown session
\* returns undefined and changes nothing.
C22_ConsumeMoves ==
    [][/\ (last'.op = "consume" /\ last'.sid \in DOMAIN sessions)
           => /\ last'.sid \notin DOMAIN sessions'
              /\ \A sid \in DOMAIN sessions \ {last'.sid} :
                    sid \in DOMAIN sessions' /\ sessions'[sid] = sessions[sid]
              /\ held' = [sid |-> last'.sid, state |-> Public(sessions[last'.sid]),
                          record |-> sessions[last'.sid]]
              /\ last'.key = "moved"
       /\ (last'.op = "consume" /\ last'.sid \notin DOMAIN sessions)
           => sessions' = sessions /\ held' = held /\ last'.key = "undefined"
       /\ (last'.op = "get" /\ last'.sid \notin DOMAIN sessions) => snap' = NoSnap
       /\ (last.op = "consume" /\ last.key = "moved" /\ last'.sid = last.sid)
           => /\ ~has(last.sid)
              /\ last'.op \in EventOps
                    => /\ Len(sessions'[last.sid].messages) <= 1
                       /\ sessions'[last.sid].totalCost = last'.amount
                       /\ sessions'[last.sid].sessionInfo =
                              IF last'.op = "system" THEN last'.key ELSE "null"
                       /\ sessions'[last.sid].pendingPermission = "null"]_vars

\* C22's case: a session with a transcript, a cost and a sessionInfo was consumed, and
\* the message_start that came for it afterwards started a new record
C22_Witness ==
    /\ last.op = "message_start"
    /\ has("s1")
    /\ Len(Messages("s1")) = 1
    /\ sessions["s1"].totalCost = 0
    /\ sessions["s1"].sessionInfo = "null"
    /\ held # NoHeld
    /\ held.sid = "s1"
    /\ held.state.totalCost > 0
    /\ held.state.sessionInfo # "null"
    /\ Len(held.state.messages) > 0

\* the ids of a transcript, in order
IdsOf(msgs) == [i \in 1..Len(msgs) |-> msgs[i].id]

\* msgs without its r-th message (msgs itself when r = 0)
WithoutAt(msgs, r) ==
    IF r = 0 THEN msgs ELSE SubSeq(msgs, 1, r - 1) \o SubSeq(msgs, r + 1, Len(msgs))

\* C23: every call leaves the transcript as the messages it held, in their order, less at
\* most one removed message, followed by the messages the call added (a removed message
\* is not among the added ones); initFromState installs the given messages in their order.
C23_OrderPreserved ==
    [][/\ \A sid \in DOMAIN sessions \cap DOMAIN sessions' :
             ~(last'.op = "initFromState" /\ last'.sid = sid)
             => LET old == IdsOf(sessions[sid].messages)
                    new == IdsOf(sessions'[sid].messages)
                IN \E r \in 0..Len(old) :
                      LET kept == WithoutAt(old, r)
                      IN /\ Len(new) >= Len(kept)
                         /\ SubSeq(new, 1, Len(kept)) = kept
                         /\ r # 0 => \A j \in (Len(kept) + 1)..Len(new) : new[j] # old[r]
       /\ last'.op = "initFromState"
              => IdsOf(sessions'[last'.sid].messages) = IdsOf(held.state.messages)]_vars

\* C23's case: the first of two streamed messages has been removed from the transcript;
\* the second one and the tool_call message behind it keep their order
C23_Witness ==
    /\ last.op = "assistant"
    /\ has("s1")
    /\ idCounter = 2
    /\ Len(Messages("s1")) = 2
    /\ Messages("s1")[1].id = <<"stream-bg", "1">>
    /\ Messages("s1")[2].id = <<"tool", "t2">>

\* C24: a Protocol A tool_result and a Protocol B tool_call_update change no message but
\* the tool_call message of their correlation id, and add or remove none: with no such
\* message the transcript stays as it was.
C24_UnknownToolIdDropped ==
    [][last'.op \in {"tool_result", "tool_call_update"}
       => LET before == getOrCreate(last'.sid).messages
              after == sessions'[last'.sid].messages
          IN /\ Len(after) = Len(before)
             /\ \A i \in 1..Len(before) :
                   IF before[i].id = <<"tool", last'.key>>
                   THEN before[i].role = "tool_call" /\ after[i].id = before[i].id
                   ELSE after[i] = before[i]]_vars

\* C24's case: a tool_call_update for a toolCallId without a message, in a session whose
\* transcript holds the pending tool_call message of another id
C24_Witness ==
    /\ last.op = "tool_call_update"
    /\ has("s1")
    /\ findById(Messages("s1"), <<"tool", last.key>>) = 0
    /\ \E i \in 1..Len(Messages("s1")) : IsPending(Messages("s1")[i])

\* C25: every entry of a session's parentToolMap names a message of the transcript that
\* has role tool_call and a step list, and only tool_call messages of the nested-agent
\* tool have a step list.
C25_ParentMapPointsToHost ==
    \A sid \in DOMAIN sessions :
        /\ \A parentId \in DOMAIN sessions[sid].parentToolMap :
              \E i \in 1..Len(Messages(sid)) :
                 /\ Messages(sid)[i].id = sessions[sid].parentToolMap[parentId]
                 /\ Messages(sid)[i].role = "tool_call"
                 /\ Messages(sid)[i].hasSubagentSteps
        /\ \A i \in 1..Len(Messages(sid)) :
              (Messages(sid)[i].hasSubagentSteps \/ Messages(sid)[i].subagentSteps # <<>>)
              => /\ Messages(sid)[i].role = "tool_call"
                 /\ Messages(sid)[i].toolName = "Task"

\* C25's case: initFromState has rebuilt the mapping for a transcript that holds a
\* nested-agent tool_call with a step next to a plain tool_call
C25_Witness ==
    /\ last.op = "initFromState"
    /\ has("s1")
    /\ DOMAIN sessions["s1"].parentToolMap = {"t1"}
    /\ findById(Messages("s1"), <<"tool", "t2">>) # 0
    /\ \E i \in 1..Len(Messages("s1")) :
          /\ Messages("s1")[i].id = <<"tool", "t1">>
          /\ Len(Messages("s1")[i].subagentSteps) = 1

\* C26: a result event sets isProcessing to false and invokes onProcessingChange with
\* false; when it has is_error or a subtype that starts with "error" it appends one
\* system message with isError, and otherwise none; the text is fixed for
\* error_max_turns, error_max_budget_usd and error_max_structured_output_retries, and is
\* the detail, or a fixed text when there is none, for every other subtype.
C26_ResultPost ==
    [][last'.op = "result"
       => \A r \in ResultInputsAll :
             ResultEvent(last'.sid, r[1], r[2], r[3], r[4])
             => LET before == getOrCreate(last'.sid).messages
                    after == sessions'[last'.sid].messages
                    text == CASE r[3] = "error_max_turns" ->
                                     "Session reached the maximum number of turns. Start a new session to continue."
                              [] r[3] = "error_max_budget_usd" ->
                                     "Session exceeded the cost budget limit."
                              [] r[3] = "error_max_structured_output_retries" ->
                                     "Structured output failed after maximum retries."
                              [] OTHER ->
                                     IF r[4] # "" THEN r[4]
                                     ELSE IF r[3] = "error_during_execution"
                                     THEN "An error occurred during execution."
                                     ELSE "An unexpected error occurred."
                IN /\ ~sessions'[last'.sid].isProcessing
                   /\ calls' = <<[cb |-> "onProcessingChange", sid |-> last'.sid,
                                  arg |-> "false"]>>
                   /\ IF r[2] \/ r[3] # "success"
                      THEN /\ Len(after) = Len(before) + 1
                           /\ SubSeq(after, 1, Len(before)) = before
                           /\ after[Len(after)].role = "system"
                           /\ after[Len(after)].isError
                           /\ after[Len(after)].content = <<text>>
                      ELSE after = before]_vars

\* C26's case: a result with a subtype of fixed text ended a turn of a processing
\* session; the appended system message has the fixed text
C26_Witness ==
    /\ last.op = "result"
    /\ last.key = "error_max_budget_usd"
    /\ has("s1")
    /\ sessions["s1"].sessionInfo # "null"
    /\ ~sessions["s1"].isProcessing
    /\ Len(Messages("s1")) = 2
    /\ Messages("s1")[2].role = "system"
    /\ Messages("s1")[2].content = <<"Session exceeded the cost budget limit.">>

\* C27: onProcessingChange fires only on transitions of isProcessing: every invocation
\* made by a system init, result, handleACPTurnComplete or markDisconnected call reports
\* a value different from the value isProcessing had before that call.
C27_ProcessingChangeOnlyOnTransitions ==
    [][last'.op \in {"system", "result", "turn_complete", "markDisconnected"}
       => \A i \in 1..Len(calls') :
             calls'[i].cb = "onProcessingChange"
             => calls'[i].arg # (IF has(last'.sid) /\ sessions[last'.sid].isProcessing
                                 THEN "true" ELSE "false")]_vars

\* the Protocol B chunk updates
ChunkOps == {"agent_message_chunk", "agent_thought_chunk"}

\* C28 as stated: a tool_call update ends the current burst, and the next
\* agent_message_chunk or agent_thought_chunk (any chunk that finds the pointer unset)
\* creates a new streaming assistant message at the end of the transcript.
C28_NextChunkCreatesMessage ==
    [][(/\ last'.op \in ChunkOps
        /\ has(last'.sid)
        /\ sessions[last'.sid].currentStreamingMsgId = NoId)
       => LET old == sessions[last'.sid]
              new == sessions'[last'.sid]
          IN /\ Len(new.messages) = Len(old.messages) + 1
             /\ new.messages[Len(new.messages)].role = "assistant"
             /\ new.messages[Len(new.messages)].isStreaming]_vars

\* C28 (amended): a tool_call update leaves the pointer unset and the message it pointed
\* to in place, with isStreaming false, its text and reasoning as they were and its
\* reasoning finalized if it has any, and the transcript has the tool_call message; the
\* pointer then stays unset until a chunk with non-empty text arrives (or initFromState
\* installs a record with a streaming message), and that chunk
\* appends a new streaming assistant message holding the chunk, after every earlier
\* message, whose text and reasoning it leaves alone. A chunk without text creates nothing.
C28_ToolCallEndsBurst ==
    [][LET old == getOrCreate(last'.sid)
           new == sessions'[last'.sid]
       IN /\ last'.op = "tool_call"
             => /\ new.currentStreamingMsgId = NoId
                /\ \E j \in 1..Len(new.messages) :
                      /\ new.messages[j].id = <<"tool", last'.key>>
                      /\ new.messages[j].role = "tool_call"
                /\ \A i \in 1..Len(old.messages) :
                      (old.currentStreamingMsgId # NoId
                       /\ old.messages[i].id = old.currentStreamingMsgId)
                      => /\ new.messages[i].id = old.messages[i].id
                         /\ ~new.messages[i].isStreaming
                         /\ new.messages[i].content = old.messages[i].content
                         /\ new.messages[i].thinking = old.messages[i].thinking
                         /\ new.messages[i].thinking # <<>> => new.messages[i].thinkingComplete
          /\ (/\ last'.sid \in DOMAIN sessions'
              /\ old.currentStreamingMsgId = NoId
              /\ new.currentStreamingMsgId # NoId)
             => \/ last'.op \in ChunkOps /\ last'.text # <<>>
                \/ last'.op = "initFromState"
          /\ (last'.op \in ChunkOps /\ old.currentStreamingMsgId = NoId)
             => IF last'.text = <<>>
                THEN /\ Len(new.messages) = Len(old.messages)
                     /\ new.currentStreamingMsgId = NoId
                ELSE /\ Len(new.messages) = Len(old.messages) + 1
                     /\ new.messages[Len(new.messages)].role = "assistant"
                     /\ new.messages[Len(new.messages)].isStreaming
                     /\ new.messages[Len(new.messages)].id = new.currentStreamingMsgId
                     /\ \A i \in 1..Len(old.messages) :
                           old.messages[i].id # new.messages[Len(new.messages)].id
                     /\ IF last'.op = "agent_message_chunk"
                        THEN /\ new.messages[Len(new.messages)].content = last'.text
                             /\ new.messages[Len(new.messages)].thinking = <<>>
                        ELSE /\ new.messages[Len(new.messages)].content = <<>>
                             /\ new.messages[Len(new.messages)].thinking = last'.text
                     /\ \A i \in 1..Len(old.messages) :
                           /\ new.messages[i].id = old.messages[i].id
                           /\ new.messages[i].content = old.messages[i].content
                           /\ new.messages[i].thinking = old.messages[i].thinking]_vars

\* C28's case: a reasoning burst, a tool_call that ended it, then a text chunk that
\* opened a new message behind the tool_call message
C28_Witness ==
    /\ last.op = "agent_message_chunk"
    /\ has("s1")
    /\ Len(Messages("s1")) = 3
    /\ Messages("s1")[1].role = "assistant"
    /\ Messages("s1")[1].thinking = <<"a">>
    /\ Messages("s1")[1].content = <<>>
    /\ Messages("s1")[1].thinkingComplete
    /\ ~Messages("s1")[1].isStreaming
    /\ Messages("s1")[2].role = "tool_call"
    /\ Messages("s1")[3].role = "assistant"
    /\ Messages("s1")[3].content = <<"a">>
    /\ Messages("s1")[3].isStreaming
    /\ sessions["s1"].currentStreamingMsgId = Messages("s1")[3].id

\* C29: a tool_call update with status completed or failed that creates a tool_call
\* message creates one that is not pending: it has a result at once, also when the
\* update carries no output, it has the error flag exactly when the status is failed, and
\* a later closePendingACPTools pass leaves it as it is.
C29_TerminalOpenNotPending ==
    [][last'.op = "tool_call"
       => \A update \in ToolCallOpens :
             (/\ ACPEvent(last'.sid, update)
              /\ update.status \in {"completed", "failed"}
              /\ findById(getOrCreate(last'.sid).messages, <<"tool", update.toolCallId>>) = 0)
             => LET new == sessions'[last'.sid]
                    j == findById(new.messages, <<"tool", update.toolCallId>>)
                IN /\ j # 0
                   /\ new.messages[j].toolResult # "undefined"
                   /\ new.messages[j].toolError = (update.status = "failed")
                   /\ closePendingACPTools(new).messages[j] = new.messages[j]]_vars

\* C30: for both protocols, a text delta or message chunk that appends text to an
\* assistant message with non-empty reasoning leaves that message with thinkingComplete
\* true; and no event, handleACPTurnComplete or markDisconnected call turns
\* thinkingComplete of a message that stays in the record from true to false (the
\* messages that stay are the old ones, in order, without the one the call removed).
C30_ThinkingCompleteSetAndKept ==
    [][(last'.sid \in DOMAIN sessions /\ last'.sid \in DOMAIN sessions')
       => LET old == sessions[last'.sid].messages
              new == sessions'[last'.sid].messages
          IN /\ last'.op \in {"text_delta", "agent_message_chunk"}
                => \A i \in 1..Len(old) :
                      (/\ i <= Len(new)
                       /\ new[i].id = old[i].id
                       /\ new[i].content # old[i].content
                       /\ old[i].thinking # <<>>)
                      => new[i].thinkingComplete
             /\ last'.op \in EventOps \cup {"turn_complete", "markDisconnected"}
                => \E r \in 0..Len(old) :
                      LET kept == WithoutAt(old, r)
                      IN /\ r = 0 \/ r > Len(new) \/ new[r].id # old[r].id
                         /\ Len(new) >= Len(kept)
                         /\ \A k \in 1..Len(kept) :
                               /\ new[k].id = kept[k].id
                               /\ kept[k].thinkingComplete => new[k].thinkingComplete]_vars

\* C30's case: a text delta finalized the reasoning of the streamed message, and a
\* further reasoning delta left the flag set
C30_Witness ==
    /\ last.op = "thinking_delta"
    /\ has("s1")
    /\ Len(Messages("s1")) = 1
    /\ Messages("s1")[1].content = <<"a">>
    /\ Messages("s1")[1].thinking = <<"r", "r">>
    /\ Messages("s1")[1].thinkingComplete

\* the tool_call messages of msgs that carry the id of the correlation id t
ToolMsgs(msgs, t) == {i \in 1..Len(msgs) : msgs[i].role = "tool_call" /\ msgs[i].id = <<"tool", t>>}

\* C31: the transcript holds at most one tool_call message per correlation id; an
\* assistant event leaves every tool_call message it finds as it is and a tool_call
\* update leaves its steps and the result it has; a Task tool_use is registered in
\* parentToolMap exactly when the assistant event appends its message.
C31_ToolCallsDeduplicated ==
    [][last'.sid \in DOMAIN sessions'
       => LET old == getOrCreate(last'.sid)
              new == sessions'[last'.sid]
          IN /\ \A t \in ToolIds : Cardinality(ToolMsgs(new.messages, t)) <= 1
             /\ last'.op \in {"assistant", "tool_call"}
                => /\ \A i \in 1..Len(old.messages) :
                         old.messages[i].role = "tool_call"
                         => \E j \in 1..Len(new.messages) :
                               /\ new.messages[j].id = old.messages[i].id
                               /\ new.messages[j].subagentSteps = old.messages[i].subagentSteps
                               /\ old.messages[i].toolResult # "undefined"
                                  => new.messages[j].toolResult = old.messages[i].toolResult
                               /\ last'.op = "assistant" => new.messages[j] = old.messages[i]
                   /\ DOMAIN new.parentToolMap =
                         DOMAIN old.parentToolMap
                         \cup {t \in ToolIds :
                                  /\ last'.op = "assistant"
                                  /\ ToolMsgs(old.messages, t) = {}
                                  /\ \E i \in ToolMsgs(new.messages, t) :
                                        new.messages[i].toolName = "Task"}]_vars

\* C31's case: a Task tool_use that has a nested step and its result is named again by
\* a later assistant event; the one message keeps both
C31_Witness ==
    /\ last.op = "assistant"
    /\ ops = 4
    /\ has("s1")
    /\ Len(Messages("s1")) = 1
    /\ Messages("s1")[1].id = <<"tool", "t1">>
    /\ Messages("s1")[1].toolResult = "r1"
    /\ Len(Messages("s1")[1].subagentSteps) = 1
    /\ DOMAIN sessions["s1"].parentToolMap = {"t1"}

\* C32: a top-level tool result for the correlation id of a Task tool_call message sets
\* that message's subagentStatus to completed, whatever the result payload is, also one
\* that normalizes to no result, and leaves its subagentSteps unchanged.
C32_TaskResultCompletes ==
    [][(last'.op = "tool_result" /\ has(last'.sid))
       => LET old == sessions[last'.sid].messages
              new == sessions'[last'.sid].messages
          IN \A i \in 1..Len(old) :
                (/\ old[i].id = <<"tool", last'.key>>
                 /\ old[i].role = "tool_call"
                 /\ old[i].toolName = "Task")
                => /\ new[i].id = old[i].id
                   /\ new[i].subagentStatus = "completed"
                   /\ new[i].subagentSteps = old[i].subagentSteps]_vars

\* C37: once a Task tool_call message has subagentStatus completed, its subagentSteps no
\* longer change: a later nested assistant or nested tool-result event with its
\* correlation id as parent id adds no step and attaches no step result.
C37_CompletedStepsFrozen ==
    [][(last'.op \in {"subagent-assistant", "subagent-user"} /\ has(last'.sid))
       => LET old == sessions[last'.sid].messages
              new == sessions'[last'.sid].messages
          IN \A i \in 1..Len(old) :
                (/\ old[i].role = "tool_call"
                 /\ old[i].toolName = "Task"
                 /\ old[i].subagentStatus = "completed"
                 /\ old[i].id = <<"tool", last'.key>>)
                => /\ new[i].id = old[i].id
                   /\ new[i].subagentSteps = old[i].subagentSteps]_vars

\* C33: in every reachable state, a session's currentStreamingMsgId, when set, is the id
\* of an assistant message of the transcript that has isStreaming true.
C33_PointerNamesStreamingMessage ==
    \A sid \in DOMAIN sessions :
        sessions[sid].currentStreamingMsgId # NoId
        => \E i \in 1..Len(Messages(sid)) :
              /\ Messages(sid)[i].id = sessions[sid].currentStreamingMsgId
              /\ Messages(sid)[i].role = "assistant"
              /\ Messages(sid)[i].isStreaming

\* the number of assistant messages of msgs
AssistantCount(msgs) == Cardinality({i \in 1..Len(msgs) : msgs[i].role = "assistant"})

\* C34: when message_start, text deltas, message_delta and message_stop have built a
\* message, the assistant event that carries the same text reconciles with it: it adds
\* no second assistant message with that text.
C34_FinalizedAfterStopReconciles ==
    [][(/\ last'.op = "assistant"
        /\ last.op = "message_stop"
        /\ has(last'.sid)
        /\ last'.text # <<>>
        /\ Messages(last'.sid) # <<>>
        /\ Messages(last'.sid)[Len(Messages(last'.sid))].role = "assistant"
        /\ Messages(last'.sid)[Len(Messages(last'.sid))].id[1] = "stream-bg"
        /\ Messages(last'.sid)[Len(Messages(last'.sid))].content = last'.text)
       => AssistantCount(sessions'[last'.sid].messages) = AssistantCount(Messages(last'.sid))]_vars

\* C35: the messages markDisconnected un-streamed are frozen: a later text delta,
\* thinking delta or message_delta (no message_start in between) changes neither the
\* text nor the reasoning of an assistant message that is not streaming, and does not
\* remove it.
C35_UnstreamedMessagesFrozen ==
    [][(last'.op \in {"text_delta", "thinking_delta", "message_delta"} /\ has(last'.sid))
       => LET old == sessions[last'.sid].messages
              new == sessions'[last'.sid].messages
          IN \A i \in 1..Len(old) :
                (old[i].role = "assistant" /\ ~old[i].isStreaming)
                => /\ i <= Len(new)
                   /\ new[i].id = old[i].id
                   /\ new[i].content = old[i].content
                   /\ new[i].thinking = old[i].thinking]_vars

\* C36: in a session fed by Protocol B updates and handleACPTurnComplete, at most one
\* tool_call message is pending (no result, no error flag), and a pending one is the
\* last tool_call message of the transcript.
C36_AtMostOnePendingACPTool ==
    \A sid \in DOMAIN sessions :
        LET pending == {i \in 1..Len(Messages(sid)) : IsPending(Messages(sid)[i])}
        IN /\ Cardinality(pending) <= 1
           /\ \A i \in pending :
                 \A j \in (i + 1)..Len(Messages(sid)) : Messages(sid)[j].role # "tool_call"

\* C36's case: a second tool call was opened while the first was pending; the first got
\* the neutral result and the second is the pending one
C36_Witness ==
    /\ last.op = "tool_call"
    /\ has("s1")
    /\ Len(Messages("s1")) = 2
    /\ Messages("s1")[1].id = <<"tool", "t1">>
    /\ Messages("s1")[1].toolResult = "completed"
    /\ Messages("s1")[2].id = <<"tool", "t2">>
    /\ IsPending(Messages("s1")[2])

\* C38: in every reachable state a record's rawAcpPermission is non-null only when its
\* pendingPermission is non-null; no event of either protocol and no
\* handleACPTurnComplete changes pendingPermission or rawAcpPermission: only
\* setPermission, markDisconnected, initFromState, consume and delete do.
C38_PermissionOnlyByItsCalls ==
    [][\A sid \in DOMAIN sessions' :
          LET old == getOrCreate(sid)
              new == sessions'[sid]
          IN /\ new.rawAcpPermission # "null" => new.pendingPermission # "null"
             /\ (last'.op \in EventOps \cup {"system-status", "turn_complete"})
                => /\ new.pendingPermission = old.pendingPermission
                   /\ new.rawAcpPermission = old.rawAcpPermission
             /\ (\/ new.pendingPermission # old.pendingPermission
                 \/ new.rawAcpPermission # old.rawAcpPermission)
                => /\ last'.sid = sid
                   /\ last'.op \in {"setPermission", "markDisconnected", "initFromState"}]_vars

\* C38's case: a request with its raw form, set while the transcript was empty (the
\* value get returned then shows it), outlived an event and a turn-complete call
C38_Witness ==
    /\ last.op = "turn_complete"
    /\ ops = 4
    /\ has("s1")
    /\ held # NoHeld
    /\ held.state.pendingPermission = "p1"
    /\ held.state.messages = <<>>
    /\ sessions["s1"].pendingPermission = "p1"
    /\ sessions["s1"].rawAcpPermission = "raw1"
    /\ Len(Messages("s1")) = 1
====
